---- MODULE Spec2Model ----
(***************************************************************************)
(* nameport: discovery loop, naming engine, service store, blacklist       *)
(* store, request router and admin API of the daemon (cmd/daemon/main.go,  *)
(* internal/naming, internal/storage).                                     *)
(*                                                                         *)
(* Strings are sequences of one-character strings, so that prefix, suffix, *)
(* concatenation, trimming and formatting are computed as the Go code      *)
(* computes them.                                                          *)
(***************************************************************************)
EXTENDS Integers, Sequences, FiniteSets, TLC

(***************************************************************************)
(* Bounds of the model.                                                    *)
(***************************************************************************)
MaxPass == 2
MaxEnv == 2
MaxApi == 1
MaxReq == 1
MaxRestart == 1

MaxGen == 2

MaxHandshakes == 3

MaxFnOps == 1

MaxCli == 1

MaxStoreCalls == 2

(***************************************************************************)
(* strings / path/filepath / strconv                                       *)
(***************************************************************************)
HasPrefix(s, p) == Len(p) <= Len(s) /\ SubSeq(s, 1, Len(p)) = p

HasSuffix(s, p) == Len(p) <= Len(s) /\ SubSeq(s, Len(s) - Len(p) + 1, Len(s)) = p

TrimSuffix(s, p) == IF HasSuffix(s, p) THEN SubSeq(s, 1, Len(s) - Len(p)) ELSE s

Contains(s, sub) ==
    \E i \in 1..(Len(s) - Len(sub) + 1) : SubSeq(s, i, i + Len(sub) - 1) = sub

LastIndex(s, c) ==
    IF \E i \in 1..Len(s) : s[i] = c
    THEN CHOOSE i \in 1..Len(s) : s[i] = c /\ \A j \in (i + 1)..Len(s) : s[j] # c
    ELSE 0

Index(s, c) ==
    IF \E i \in 1..Len(s) : s[i] = c
    THEN CHOOSE i \in 1..Len(s) : s[i] = c /\ \A j \in 1..(i - 1) : s[j] # c
    ELSE 0

RECURSIVE TrimRightChar(_, _)
TrimRightChar(s, c) ==
    IF s # <<>> /\ s[Len(s)] = c THEN TrimRightChar(SubSeq(s, 1, Len(s) - 1), c) ELSE s

RECURSIVE TrimLeftChar(_, _)
TrimLeftChar(s, c) ==
    IF s # <<>> /\ s[1] = c THEN TrimLeftChar(Tail(s), c) ELSE s

Trim(s, c) == TrimRightChar(TrimLeftChar(s, c), c)

RECURSIVE Split(_, _)
Split(s, c) ==
    IF Index(s, c) = 0 THEN <<s>>
    ELSE <<SubSeq(s, 1, Index(s, c) - 1)>> \o Split(SubSeq(s, Index(s, c) + 1, Len(s)), c)

RECURSIVE Join(_, _)
Join(parts, sep) ==
    IF parts = <<>> THEN <<>>
    ELSE IF Len(parts) = 1 THEN parts[1]
    ELSE parts[1] \o sep \o Join(Tail(parts), sep)

Digits == <<"0", "1", "2", "3", "4", "5", "6", "7", "8", "9">>

RECURSIVE Itoa(_)
Itoa(n) == IF n < 10 THEN <<Digits[n + 1]>> ELSE Itoa(n \div 10) \o <<Digits[(n % 10) + 1]>>

UpperCase ==
    <<"A", "B", "C", "D", "E", "F", "G", "H", "I", "J", "K", "L", "M",
      "N", "O", "P", "Q", "R", "S", "T", "U", "V", "W", "X", "Y", "Z">>

LowerCase ==
    <<"a", "b", "c", "d", "e", "f", "g", "h", "i", "j", "k", "l", "m",
      "n", "o", "p", "q", "r", "s", "t", "u", "v", "w", "x", "y", "z">>

ToLowerChar(c) ==
    IF \E i \in 1..26 : UpperCase[i] = c
    THEN LowerCase[CHOOSE i \in 1..26 : UpperCase[i] = c]
    ELSE c

ToLower(s) == [i \in 1..Len(s) |-> ToLowerChar(s[i])]

EqualFold(s, t) == ToLower(s) = ToLower(t)

Slash == "/"

\* filepath.Base: last element of the path, trailing separators removed.
Base(path) ==
    IF path = <<>> THEN <<".">>
    ELSE LET p == TrimRightChar(path, Slash)
             q == SubSeq(p, LastIndex(p, Slash) + 1, Len(p))
         IN  IF q = <<>> THEN <<Slash>> ELSE q

\* filepath.Dir: all but the last element, cleaned (inputs hold no "." or
\* ".." elements and no doubled separators).
Dir(path) ==
    LET d == SubSeq(path, 1, LastIndex(path, Slash))
        c == TrimRightChar(d, Slash)
    IN  IF d = <<>> THEN <<".">>
        ELSE IF c = <<>> THEN <<Slash>>
        ELSE c

(***************************************************************************)
(* internal/naming/names.go                                                *)
(***************************************************************************)
DotLocalhost == <<".", "l", "o", "c", "a", "l", "h", "o", "s", "t">>

DotApp == <<".", "a", "p", "p">>

IsAlnum(c) ==
    \/ \E i \in 1..26 : LowerCase[i] = c
    \/ \E i \in 1..10 : Digits[i] = c

\* regexp `[^a-z0-9]+` replaced by "-": every maximal run becomes one hyphen.
RECURSIVE ReplaceRuns(_, _)
ReplaceRuns(s, inRun) ==
    IF s = <<>> THEN <<>>
    ELSE IF IsAlnum(s[1]) THEN <<s[1]>> \o ReplaceRuns(Tail(s), FALSE)
    ELSE IF inRun THEN ReplaceRuns(Tail(s), TRUE)
    ELSE <<"-">> \o ReplaceRuns(Tail(s), TRUE)

MaxNameLen == 50

SanitizeName(name) ==
    LET lowered == ToLower(name)
        replaced == ReplaceRuns(lowered, FALSE)
        trimmed == Trim(replaced, "-")
        nonEmpty == IF trimmed = <<>> THEN <<"a", "p", "p">> ELSE trimmed
    IN  IF Len(nonEmpty) > MaxNameLen THEN SubSeq(nonEmpty, 1, MaxNameLen) ELSE nonEmpty

isSystemBinary(exePath) ==
    \E prefix \in {<<"/", "u", "s", "r", "/", "b", "i", "n", "/">>,
                   <<"/", "u", "s", "r", "/", "s", "b", "i", "n", "/">>,
                   <<"/", "b", "i", "n", "/">>,
                   <<"/", "s", "b", "i", "n", "/">>} : HasPrefix(exePath, prefix)

isGenericDir(name) ==
    \E g \in {<<"b", "i", "n">>, <<"s", "b", "i", "n">>, <<"l", "i", "b">>,
              <<"l", "i", "b", "e", "x", "e", "c">>, <<"u", "s", "r">>,
              <<"l", "o", "c", "a", "l">>, <<"o", "p", "t">>, <<"v", "a", "r">>,
              <<"e", "t", "c">>} : EqualFold(name, g)

shouldUseCwd(exeName, args) ==
    \/ exeName \in {<<"s", "e", "r", "v", "e">>,
                    <<"h", "t", "t", "p", "-", "s", "e", "r", "v", "e", "r">>,
                    <<"h", "s">>, <<"n", "p", "x">>,
                    <<"l", "i", "v", "e", "-", "s", "e", "r", "v", "e", "r">>,
                    <<"b", "r", "o", "w", "s", "e", "r", "-", "s", "y", "n", "c">>}
    \/ /\ exeName \in {<<"p", "y", "t", "h", "o", "n">>, <<"p", "y", "t", "h", "o", "n", "3">>}
       /\ \E i \in 1..Len(args) :
            args[i] \in {<<"h", "t", "t", "p", ".", "s", "e", "r", "v", "e", "r">>,
                         <<"-", "m", "h", "t", "t", "p", ".", "s", "e", "r", "v", "e", "r">>}
    \/ /\ exeName \in {<<"n", "o", "d", "e">>, <<"n", "o", "d", "e", "j", "s">>}
       /\ \/ Len(args) < 2
          \/ HasPrefix(args[2], <<"-">>)
          \/ ~Contains(args[2], <<Slash>>) /\ ~HasPrefix(args[2], <<".">>)

extractAppBundleName(exePath) ==
    LET parts == Split(exePath, Slash)
        hits == {i \in 1..Len(parts) : HasSuffix(parts[i], DotApp)}
    IN  IF hits = {} THEN <<>>
        ELSE TrimSuffix(parts[CHOOSE i \in hits : \A j \in hits : i <= j], DotApp)

extractProjectNameFromArgs(args) ==
    IF Len(args) < 2 THEN <<>>
    ELSE LET scriptPath == args[2]
             dir == Dir(scriptPath)
         IN  IF (Contains(scriptPath, <<Slash>>) \/ HasPrefix(scriptPath, <<".">>))
                /\ dir # <<>> /\ dir # <<".">>
             THEN Base(dir)
             ELSE <<>>

ExtractBaseName(exePath, cwd, args) ==
    LET exeName == Base(exePath)
        base == Base(Dir(exePath))
    IN  IF extractAppBundleName(exePath) # <<>> THEN extractAppBundleName(exePath)
        ELSE IF extractProjectNameFromArgs(args) # <<>> THEN extractProjectNameFromArgs(args)
        ELSE IF shouldUseCwd(exeName, args) /\ cwd # <<>> THEN Base(cwd)
        ELSE IF isSystemBinary(exePath) THEN exeName
        ELSE IF isGenericDir(base) THEN exeName
        ELSE base

(***************************************************************************)
(* regexp: the patterns used here are literals with an optional leading    *)
(* "^" and trailing "$"; a name regex is such a literal followed by the    *)
(* capture group "(.+)".                                                   *)
(***************************************************************************)
RegexAnchoredStart(re) == re # <<>> /\ re[1] = "^"

RegexAnchoredEnd(re) == re # <<>> /\ re[Len(re)] = "$"

RegexLiteral(re) ==
    LET a == IF RegexAnchoredStart(re) THEN Tail(re) ELSE re
    IN  IF RegexAnchoredEnd(a) THEN SubSeq(a, 1, Len(a) - 1) ELSE a

\* regexp.MatchString(re, s)
MatchString(re, s) ==
    LET lit == RegexLiteral(re)
    IN  IF RegexAnchoredStart(re) /\ RegexAnchoredEnd(re) THEN s = lit
        ELSE IF RegexAnchoredStart(re) THEN HasPrefix(s, lit)
        ELSE IF RegexAnchoredEnd(re) THEN HasSuffix(s, lit)
        ELSE Contains(s, lit)

CaptureGroup == <<"(", ".", "+", ")">>

\* regexp.FindStringSubmatch(s)[1] for a regex "^lit(.+)$"; <<>> when there is
\* no match.
FindStringSubmatch(re, s) ==
    LET lit == TrimSuffix(RegexLiteral(re), CaptureGroup)
    IN  IF HasSuffix(RegexLiteral(re), CaptureGroup) /\ HasPrefix(s, lit) /\ Len(s) > Len(lit)
        THEN SubSeq(s, Len(lit) + 1, Len(s))
        ELSE <<>>

(***************************************************************************)
(* internal/naming/rules.go                                                *)
(***************************************************************************)
\* The merged rule list, ascending by priority: tools that serve their
\* working directory are named after it, everything else after the parent
\* directory of the executable.
Rules ==
    << [id |-> "cwd-tools", priority |-> 30,
        exe_pattern |-> <<"/", "s", "e", "r", "v", "e", "$">>,
        arg_pattern |-> <<>>, cwd_pattern |-> <<>>, port_pattern |-> <<>>,
        name_source |-> "cwd", name_regex |-> <<>>, static_name |-> <<>>],
       [id |-> "parent-dir", priority |-> 100,
        exe_pattern |-> <<>>,
        arg_pattern |-> <<>>, cwd_pattern |-> <<>>, port_pattern |-> <<>>,
        name_source |-> "parent_dir", name_regex |-> <<>>, static_name |-> <<>>] >>

ruleMatches(rule, exePath, joinedArgs, cwd, portStr) ==
    /\ rule.exe_pattern # <<>> => MatchString(rule.exe_pattern, exePath)
    /\ rule.arg_pattern # <<>> => MatchString(rule.arg_pattern, joinedArgs)
    /\ rule.cwd_pattern # <<>> => MatchString(rule.cwd_pattern, cwd)
    /\ rule.port_pattern # <<>> => MatchString(rule.port_pattern, portStr)

RECURSIVE FirstArgCapture(_, _)
FirstArgCapture(re, args) ==
    IF args = <<>> THEN <<>>
    ELSE IF FindStringSubmatch(re, args[1]) # <<>> THEN FindStringSubmatch(re, args[1])
    ELSE FirstArgCapture(re, Tail(args))

extractName(rule, exePath, cwd, args) ==
    CASE rule.name_source = "exe" -> Base(exePath)
      [] rule.name_source = "cwd" -> IF cwd = <<>> THEN <<>> ELSE Base(cwd)
      [] rule.name_source = "arg" ->
            IF Len(args) < 2 \/ rule.name_regex = <<>> THEN <<>>
            ELSE FirstArgCapture(rule.name_regex, Tail(args))
      [] rule.name_source = "parent_dir" ->
            IF isGenericDir(Base(Dir(exePath))) THEN Base(exePath) ELSE Base(Dir(exePath))
      [] rule.name_source = "app_bundle" ->
            IF rule.name_regex # <<>> /\ FindStringSubmatch(rule.name_regex, exePath) # <<>>
            THEN FindStringSubmatch(rule.name_regex, exePath)
            ELSE extractAppBundleName(exePath)
      [] rule.name_source = "static" -> rule.static_name
      [] OTHER -> <<>>

\* Replaces MatchFrom: the first rule whose patterns match decides, also when
\* it extracts no name.
RECURSIVE MatchFromFirstHit(_, _, _, _, _)
MatchFromFirstHit(rules, exePath, cwd, args, port) ==
    IF rules = <<>> THEN <<>>
    ELSE IF ruleMatches(rules[1], exePath, Join(args, <<" ">>), cwd, Itoa(port))
         THEN extractName(rules[1], exePath, cwd, args)
         ELSE MatchFromFirstHit(Tail(rules), exePath, cwd, args, port)

RECURSIVE MatchFrom(_, _, _, _, _)
MatchFrom(rules, exePath, cwd, args, port) ==
    IF rules = <<>> THEN <<>>
    ELSE IF ruleMatches(rules[1], exePath, Join(args, <<" ">>), cwd, Itoa(port))
         THEN CHOOSE r \in {IF name # <<>> THEN name
                            ELSE MatchFrom(Tail(rules), exePath, cwd, args, port) :
                               name \in {extractName(rules[1], exePath, cwd, args)}} : TRUE
         ELSE MatchFrom(Tail(rules), exePath, cwd, args, port)

\* RuleEngine.Match
Match(exePath, cwd, args, port) == MatchFrom(Rules, exePath, cwd, args, port)

(***************************************************************************)
(* internal/naming/names.go: Generator                                     *)
(***************************************************************************)
\* Stand-in for SHA-256: a deterministic digest of the bytes, of which only
\* the first 8 hex digits are ever used as text.
Alphabet == LowerCase \o Digits \o <<"/", "-", ".", " ", "_">>

CharCode(c) ==
    IF \E i \in 1..Len(Alphabet) : Alphabet[i] = c
    THEN CHOOSE i \in 1..Len(Alphabet) : Alphabet[i] = c
    ELSE 0

RECURSIVE Fold(_, _, _)
Fold(bytes, mult, acc) ==
    IF bytes = <<>> THEN acc
    ELSE Fold(Tail(bytes), mult, (acc * mult + CharCode(bytes[1]) + 1) % 65536)

HexDigits == Digits \o <<"a", "b", "c", "d", "e", "f">>

Hex4(n) ==
    << HexDigits[((n \div 4096) % 16) + 1], HexDigits[((n \div 256) % 16) + 1],
       HexDigits[((n \div 16) % 16) + 1], HexDigits[(n % 16) + 1] >>

ShortHash(bytes) == Hex4(Fold(bytes, 31, 7)) \o Hex4(Fold(bytes, 37, 11))

\* computeHash(exePath)[:8]
computeHash(exePath) == ShortHash(exePath)

NUL == "NUL"

RECURSIVE ArgBytes(_)
ArgBytes(args) == IF args = <<>> THEN <<>> ELSE args[1] \o <<NUL>> \o ArgBytes(Tail(args))

\* ComputeIdentityHash: the digest is injective for all practical purposes, so
\* it is represented by the bytes that are hashed.
ComputeIdentityHash(exePath, args) == exePath \o <<NUL>> \o ArgBytes(args)

MaxSuffix == 1000

\* fmt.Sprintf("%s-%d", cleaned, i)
Suffixed(cleaned, i) == cleaned \o <<"-">> \o Itoa(i)

\* Replaces FirstFree: the first candidate is taken without looking it up.
FirstFreeUnchecked(usedNames, cleaned, from) == from

\* The loop `for i := 1; i < 1000; i++`: the first i, in ascending order, whose
\* candidate is not in usedNames, and 0 when the loop runs to its end.
FirstFree(usedNames, cleaned, from) ==
    IF \E i \in from..(MaxSuffix - 1) : Suffixed(cleaned, i) \notin usedNames
    THEN CHOOSE i \in from..(MaxSuffix - 1) :
            /\ Suffixed(cleaned, i) \notin usedNames
            /\ \A j \in from..(i - 1) : Suffixed(cleaned, j) \in usedNames
    ELSE 0

\* Generator.GenerateName from the sanitized base name on: the name returned
\* and the used-name set afterwards.
AllocateName(usedNames, cleaned, exePath) ==
    LET k == FirstFree(usedNames, cleaned, 1)
        candidate == Suffixed(cleaned, k)
    IN  IF cleaned \notin usedNames
        THEN [name |-> cleaned \o DotLocalhost, used |-> usedNames \cup {cleaned}]
        ELSE IF k # 0
        THEN [name |-> candidate \o DotLocalhost, used |-> usedNames \cup {candidate}]
        ELSE [name |-> cleaned \o <<"-">> \o computeHash(exePath) \o DotLocalhost,
              used |-> usedNames]

\* Generator.GenerateName up to the sanitized base name.
CleanedBase(exePath, cwd, args) ==
    LET matched == Match(exePath, cwd, args, 0)
    IN  SanitizeName(IF matched = <<>> THEN ExtractBaseName(exePath, cwd, args)
                     ELSE matched)

\* Generator.GenerateName
GenerateName(usedNames, exePath, cwd, args) ==
    CHOOSE r \in {AllocateName(usedNames, cleaned, exePath) :
                     cleaned \in {CleanedBase(exePath, cwd, args)}} : TRUE

\* Generator.ReleaseName
ReleaseName(usedNames, name) == usedNames \ {TrimSuffix(name, DotLocalhost)}

(***************************************************************************)
(* Maps (Go maps) as functions with a finite domain.                       *)
(***************************************************************************)
EmptyMap == [x \in {} |-> 0]

MapPut(f, k, v) == [x \in (DOMAIN f) \cup {k} |-> IF x = k THEN v ELSE f[x]]

MapRemove(f, k) == [x \in (DOMAIN f) \ {k} |-> f[x]]

\* The orders in which a Go map or a JSON array can enumerate a set.
Orders(S) ==
    {s \in [1..Cardinality(S) -> S] : \A i, j \in 1..Cardinality(S) : s[i] = s[j] => i = j}

(***************************************************************************)
(* internal/storage/store.go: the store is the pair (records, names); the  *)
(* file on disk holds the list of records written by the last persist.     *)
(***************************************************************************)
Loopback == <<"1", "2", "7", ".", "0", ".", "0", ".", "1">>

EffectiveTargetHost(r) == IF r.targetHost = <<>> THEN Loopback ELSE r.targetHost

\* Store.Save: s.records after the call.
SaveRecords(recs, record) == MapPut(recs, record.id, record)

\* Store.Save: s.names after the call.
SaveNames(recs, nms, record) ==
    MapPut(IF record.id \in DOMAIN recs THEN MapRemove(nms, recs[record.id].name) ELSE nms,
           record.name, record.id)

\* Replaces UpdateNameError: a name bound to another id is not looked for.
UpdateNameErrorNoConflict(recs, nms, id, newName) ==
    IF id \notin DOMAIN recs THEN "record not found" ELSE ""

\* Store.UpdateName: the error it returns before it changes anything, "" for
\* none.
UpdateNameError(recs, nms, id, newName) ==
    IF id \notin DOMAIN recs THEN "record not found"
    ELSE IF newName \in DOMAIN nms /\ nms[newName] # id THEN "name is already in use"
    ELSE ""

UpdateNameRecords(recs, id, newName) ==
    [recs EXCEPT ![id] = [@ EXCEPT !.name = newName, !.userDefined = TRUE]]

UpdateNameNames(recs, nms, id, newName) == MapPut(MapRemove(nms, recs[id].name), newName, id)

\* Store.UpdateKeep
UpdateKeepError(recs, id) == IF id \notin DOMAIN recs THEN "record not found" ELSE ""

UpdateKeepRecords(recs, id, keep) == [recs EXCEPT ![id] = [@ EXCEPT !.keep = keep]]

\* Store.Remove
RemoveError(recs, id) == IF id \notin DOMAIN recs THEN "record not found" ELSE ""

RemoveRecords(recs, id) == MapRemove(recs, id)

RemoveNames(recs, nms, id) == MapRemove(nms, recs[id].name)

\* Store.RemoveByName: the error of the lookup in s.names.
RemoveByNameError(nms, name) == IF name \notin DOMAIN nms THEN "service not found" ELSE ""

\* Store.AddManualService
ManualID(name, targetHost, port) ==
    <<"m", "a", "n", "u", "a", "l", "-">> \o name \o <<"-">> \o targetHost \o <<"-">>
        \o Itoa(port)

AddManualError(nms, name) == IF name \in DOMAIN nms THEN "name is already in use" ELSE ""

ManualRecord(name, port, targetHost, t) ==
    LET host == IF targetHost = <<>> THEN Loopback ELSE targetHost
    IN  [id |-> ManualID(name, host, port), name |-> name, port |-> port,
         targetHost |-> host, pid |-> 0, exePath |-> <<"m", "a", "n", "u", "a", "l">>,
         args |-> <<>>, userDefined |-> TRUE, isActive |-> FALSE, lastSeen |-> t,
         keep |-> TRUE, useTLS |-> FALSE]

\* Store.persist: the document written to the file.
persist(recs) == recs

\* os.WriteFile opens the file with O_TRUNC and then writes the document. What
\* a call can come to: "ok"; "open", the file could not be opened and is as it
\* was; "write", the write failed after the truncation; "crash", the process
\* died after the truncation.
WriteFileOutcomes == {"ok", "open", "write", "crash"}

\* The error persist returns, "" for nil; "crashed" when nothing is returned
\* because the process is gone.
WriteFileError(out) == IF out = "ok" THEN "" ELSE IF out = "crash" THEN "crashed" ELSE "persist"

\* The document in the file after the call.
WriteFileDoc(old, doc, out) == IF out = "ok" THEN doc ELSE old

\* Whether the file holds a whole document after the call.
WriteFileState(old, out) ==
    IF out = "ok" THEN "complete" ELSE IF out = "open" THEN old ELSE "torn"

\* BlacklistStore.persist writes a temporary file and renames it over the
\* target: "temp", creating or writing the temporary file failed; "rename", the
\* rename failed; "crash", the process died before the rename.
RenameOutcomes == {"ok", "temp", "rename", "crash"}

\* Store.load: s.names after reading the records of the file in the order
\* given; a later record with the same name replaces the earlier entry.
RECURSIVE LoadNames(_, _, _)
LoadNames(file, order, nms) ==
    IF order = <<>> THEN nms
    ELSE LoadNames(file, Tail(order), MapPut(nms, file[order[1]].name, order[1]))

(***************************************************************************)
(* internal/storage/blacklist.go                                           *)
(***************************************************************************)
builtinBlacklistedPaths ==
    { <<"/", "u", "s", "r", "/", "l", "i", "b", "e", "x", "e", "c", "/">>,
      <<"/", "u", "s", "r", "/", "l", "i", "b", "/">>,
      <<"/", "p", "r", "i", "v", "a", "t", "e", "/", "v", "a", "r", "/">>,
      <<"/", "v", "a", "r", "/">>,
      <<"/", "o", "p", "t", "/", "X", "1", "1", "/">> }

LocalhostMagic == <<"l", "o", "c", "a", "l", "h", "o", "s", "t", "-", "m", "a", "g", "i", "c">>

builtinBlacklistedNames == {LocalhostMagic \o <<"-", "d", "a", "e", "m", "o", "n">>, LocalhostMagic}

interpreters ==
    { <<"p", "y", "t", "h", "o", "n">>, <<"p", "y", "t", "h", "o", "n", "3">>,
      <<"n", "o", "d", "e">>, <<"n", "o", "d", "e", "j", "s">>, <<"r", "u", "b", "y">>,
      <<"p", "e", "r", "l">>, <<"p", "h", "p">>, <<"j", "a", "v", "a">> }

isInterpreterName(name) == \E interp \in interpreters : name = interp \/ HasPrefix(name, interp)

isUserPath(path) ==
    \E indicator \in { <<"/", "h", "o", "m", "e", "/">>, <<"/", "U", "s", "e", "r", "s", "/">>,
                       <<"/", "t", "m", "p", "/">>,
                       <<"/", "v", "a", "r", "/", "t", "m", "p", "/">> } :
        HasPrefix(path, indicator)

\* The user-defined part of IsBlacklisted (label checkUserRules).
UserRuleMatches(entry, exePath, args) ==
    CASE entry.type = "path" -> exePath = entry.value \/ HasPrefix(exePath, entry.value)
      [] entry.type = "pattern" ->
            \/ MatchString(entry.value, exePath)
            \/ Len(args) > 0 /\ MatchString(entry.value, Join(args, <<" ">>))
      [] OTHER -> FALSE

\* BlacklistStore.IsBlacklisted
IsBlacklisted(entries, exePath, args) ==
    LET exeName == Base(exePath)
        userScript == isInterpreterName(exeName) /\ Len(args) > 1 /\ isUserPath(args[2])
    IN  \/ Contains(exePath, LocalhostMagic)
        \/ exeName \in builtinBlacklistedNames
        \/ /\ ~userScript
           /\ \E prefix \in builtinBlacklistedPaths :
                 /\ HasPrefix(exePath, prefix)
                 /\ ~HasPrefix(exePath, <<"/", "A", "p", "p", "l", "i", "c", "a", "t",
                                          "i", "o", "n", "s", "/">>)
        \/ \E i \in 1..Len(entries) : UserRuleMatches(entries[i], exePath, args)

\* Replaces IsBlacklistedPID: pid entries are never consulted.
IsBlacklistedPIDNever(entries, pid) == FALSE

\* BlacklistStore.IsBlacklistedPID
IsBlacklistedPID(entries, pid) ==
    \E i \in 1..Len(entries) : entries[i].type = "pid" /\ entries[i].value = Itoa(pid)

\* strconv.Atoi succeeds on the value (non-negative decimal inputs).
IsNumber(value) == value # <<>> /\ \A i \in 1..Len(value) : \E d \in 1..10 : Digits[d] = value[i]

\* regexp.Compile succeeds on the value: within the patterns used here, an
\* unmatched parenthesis is the one syntax error.
Compiles(value) ==
    Cardinality({i \in 1..Len(value) : value[i] = "("})
        = Cardinality({i \in 1..Len(value) : value[i] = ")"})

\* BlacklistStore.Add: the error it returns before it changes anything, ""
\* for none.
AddError(entryType, value) ==
    IF entryType \notin {"pid", "path", "pattern"} THEN "invalid blacklist type"
    ELSE IF entryType = "pid" /\ ~IsNumber(value) THEN "invalid PID value"
    ELSE IF entryType = "pattern" /\ ~Compiles(value) THEN "invalid regex pattern"
    ELSE ""

(***************************************************************************)
(* The machine the daemon runs on: the processes that may listen, their    *)
(* ports and the protocol each speaks.                                     *)
(***************************************************************************)
Procs ==
    << [exePath |-> <<"/", "o", "/", "a", "/", "s">>, cwd |-> <<"/", "w">>,
        args |-> << <<"s">> >>],
       [exePath |-> <<"/", "p", "/", "a", "/", "s">>, cwd |-> <<"/", "w">>,
        args |-> << <<"s">>, <<"-", "v">> >>] >>

Ports == {8000, 8001}

FirstPid == 100

httpPort == 80

httpsPort == 443

\* What the user may type as the new name of a rename.
RenameInputs == { <<"a", "-", "1">>, <<"b">> \o DotLocalhost }

\* What the user may submit as a blacklist entry.
BlacklistInputs ==
    { [type |-> "pattern", value |-> <<"^", "/", "p", "/">>],
      [type |-> "pattern", value |-> <<"-", "v", "$">>],
      [type |-> "path", value |-> <<"/", "p", "/", "a">>],
      [type |-> "pid", value |-> Itoa(FirstPid)],
      [type |-> "pid", value |-> <<"x">>] }

VARIABLES
    listeners,   \* the listening sockets: [port, pid, proc, proto]
    envSteps,    \* number of changes of the listening sockets so far
    records,     \* Store.records: id -> ServiceRecord
    names,       \* Store.names: name -> id
    disk,        \* the services file
    entries,     \* BlacklistStore.entries
    usedNames,   \* Generator.usedNames
    services,    \* Server.services: name -> *Service (the object of an id)
    objects,     \* the Service objects, by the id they were created for
    dpc,         \* where the discovery task is
    todo,        \* discover: listeners of the scan not yet iterated
    seenIDs,     \* discover: seenIDs
    seenNames,   \* discover: seenNames
    now,         \* discover: now
    cur,         \* discover: the listener between its store and its table step
    notifs,      \* notifications emitted by the current pass
    passes,      \* number of discovery passes started
    reqs,        \* the proxied requests
    apiCalls,    \* number of admin API calls so far
    restarts,    \* number of daemon restarts so far
    lastRename,  \* the last successful rename and whether a restart followed
    blDisk,      \* the blacklist file
    genCall,     \* the Generator used on its own: its calls so far and the latest
    resp,        \* status code of the last admin API response
    apiReq,      \* the last admin API request
    scanErr,     \* discover: whether the last portscan.Scan returned an error
    stCall,      \* the Store used on its own: its calls so far and the latest
    fileState,   \* the services file: "complete", or "torn" by an unfinished write
    InterCert,   \* CA.InterCert: the generation of the intermediate certificate
    InterKey,    \* CA.InterKey: the generation of the intermediate key
    cache,       \* Issuer.cache: primary DNS name -> CachedCert
    clock,       \* time.Now(), in hours
    icall,       \* the Issue or GetCertificate call in progress
    rpc,         \* where RotateIntermediate is
    tlsRet,      \* the calls of the Issuer so far and what the latest returned
    keys,        \* Issue: number of leaf keys generated so far
    hs,          \* the TLS handshakes in flight: each one's GetCertificate call
    fnCall,      \* SanitizeName and the Policy used on their own: the latest call
    cliCall,     \* the command line tool run beside the daemon: its latest command
    sth,         \* the goroutines that call the Store: where each one is in its call
    interFiles,  \* intermediate.pem and intermediate.key: the generation each holds
    rcall        \* the RotateIntermediate call of the command line: where it is

vars ==
    << listeners, envSteps, records, names, disk, entries, usedNames, services, objects,
       dpc, todo, seenIDs, seenNames, now, cur, notifs, passes, reqs, apiCalls, restarts,
       lastRename, blDisk, resp, genCall, apiReq, scanErr, stCall, fileState, InterCert,
       InterKey, cache, clock, icall, rpc, tlsRet, keys, hs, fnCall, cliCall, sth,
       interFiles, rcall >>

envVars == << listeners, envSteps >>

storeVars == << records, names, disk >>

tableVars == << services, objects >>

discVars == << dpc, todo, seenIDs, seenNames, now, cur, notifs, passes >>

tlsVars == << InterCert, InterKey, cache, clock, icall, rpc, tlsRet, keys, hs >>

\* The packages used on their own: the Store and the CA with its Issuer, and
\* the command line tool.
\* The callers of the Store that run side by side.
raceVars == << sth >>

\* The files of the intermediate and the call that rewrites them.
caVars == << interFiles, rcall >>

pkgVars == << stCall, fileState, tlsVars, fnCall, cliCall, raceVars, caVars >>

NoProxy == [scheme |-> "", host |-> <<>>, port |-> 0]

NoCur == [id |-> <<>>, name |-> <<>>, port |-> 0, pid |-> 0, useTLS |-> FALSE]

NoRequest ==
    [pc |-> "new", host |-> <<>>, service |-> <<>>, first |-> FALSE, outcome |-> "",
     target |-> NoProxy]

NoRename == [id |-> <<>>, old |-> <<>>, new |-> <<>>, restarted |-> FALSE]

NoCall == [ops |-> 0, kind |-> "", exePath |-> <<>>, cleaned |-> <<>>, name |-> <<>>]

NoApiReq == [op |-> "", name |-> <<>>, arg |-> <<>>]

NoStoreCall == [ops |-> 0, kind |-> "", id |-> <<>>, name |-> <<>>, err |-> ""]

NoCert == [serial |-> 0, dnsNames |-> <<>>, expiry |-> 0, signedBy |-> 0, chain |-> 0]

NoIssuerCall == [pc |-> "idle", op |-> "", dnsNames |-> <<>>, validFor |-> 0, leaf |-> NoCert]

NoTlsRet == [ops |-> 0, op |-> "", sni |-> <<>>, err |-> "", cert |-> NoCert]

NoHandshake == [pc |-> "idle", sni |-> <<>>, leaf |-> NoCert, err |-> "", cert |-> NoCert]

NoFnCall == [ops |-> 0, fn |-> "", arg |-> <<>>, ok |-> FALSE, out |-> <<>>]

NoRotateCall == [pc |-> "idle", calls |-> 0, gen |-> 0, err |-> ""]

NoCliCall == [ops |-> 0, op |-> "", type |-> "", value |-> <<>>, pass |-> 0]

\* The goroutines of the daemon that call the Store: the discovery loop and
\* the handler of POST /api/keep.
StoreCallers == {"discover", "keep"}

NoStoreOp == [pc |-> "idle", calls |-> 0, id |-> <<>>, doc |-> <<>>]

ExeOf(l) == Procs[l.proc].exePath

CwdOf(l) == Procs[l.proc].cwd

ArgsOf(l) == Procs[l.proc].args

IdOf(l) == ComputeIdentityHash(ExeOf(l), ArgsOf(l))

\* main: the state of a daemon started on an empty configuration directory.
Init ==
    /\ listeners = {}
    /\ envSteps = 0
    /\ records = EmptyMap
    /\ names = EmptyMap
    /\ disk = EmptyMap
    /\ entries = <<>>
    /\ usedNames = {}
    /\ services = EmptyMap
    /\ objects = EmptyMap
    /\ dpc = "idle"
    /\ todo = {}
    /\ seenIDs = {}
    /\ seenNames = {}
    /\ now = 0
    /\ cur = NoCur
    /\ notifs = <<>>
    /\ passes = 0
    /\ reqs = [i \in 1..MaxReq |-> NoRequest]
    /\ apiCalls = 0
    /\ restarts = 0
    /\ lastRename = NoRename
    /\ blDisk = <<>>
    /\ resp = 0
    /\ genCall = NoCall
    /\ apiReq = NoApiReq
    /\ scanErr = FALSE
    /\ stCall = NoStoreCall
    /\ fileState = "complete"
    /\ InterCert = 1
    /\ InterKey = 1
    /\ cache = EmptyMap
    /\ clock = 0
    /\ icall = NoIssuerCall
    /\ rpc = "idle"
    /\ tlsRet = NoTlsRet
    /\ keys = 0
    /\ hs = [h \in 1..MaxHandshakes |-> NoHandshake]
    /\ fnCall = NoFnCall
    /\ cliCall = NoCliCall
    /\ sth = [g \in StoreCallers |-> NoStoreOp]
    /\ interFiles = [cert |-> 1, key |-> 1]
    /\ rcall = NoRotateCall

(***************************************************************************)
(* The environment: a process starts listening, a listener goes away.      *)
(***************************************************************************)
EnvStart ==
    /\ envSteps < MaxEnv
    /\ \E p \in 1..Len(Procs), port \in Ports, proto \in {"http", "https"} :
          /\ \A l \in listeners : l.port # port
          /\ listeners' = listeners \cup
                {[port |-> port, pid |-> FirstPid + envSteps, proc |-> p, proto |-> proto]}
    /\ envSteps' = envSteps + 1
    /\ UNCHANGED << genCall, apiReq, scanErr, pkgVars, storeVars, entries, usedNames, tableVars, discVars, reqs, apiCalls,
                    restarts, lastRename, blDisk, resp >>

EnvStop ==
    /\ envSteps < MaxEnv
    /\ \E l \in listeners : listeners' = listeners \ {l}
    /\ envSteps' = envSteps + 1
    /\ UNCHANGED << genCall, apiReq, scanErr, pkgVars, storeVars, entries, usedNames, tableVars, discVars, reqs, apiCalls,
                    restarts, lastRename, blDisk, resp >>

(***************************************************************************)
(* internal/probe: DetectProtocol("127.0.0.1", port) answers for whatever  *)
(* listens on the port at the time of the probe.                           *)
(***************************************************************************)
DetectProtocol(port) ==
    IF \E l \in listeners : l.port = port
    THEN (CHOOSE l \in listeners : l.port = port).proto
    ELSE "none"

(***************************************************************************)
(* cmd/daemon/main.go: Server.discover                                     *)
(***************************************************************************)
\* The listener is passed over by the filters at the head of the loop body.
Skipped(l) ==
    \/ l.port = httpPort \/ l.port = httpsPort
    \/ IsBlacklisted(entries, ExeOf(l), ArgsOf(l))
    \/ IsBlacklistedPID(entries, l.pid)
    \/ DetectProtocol(l.port) = "none"

DiscoverScan ==
    /\ dpc = "idle"
    /\ passes < MaxPass
    /\ passes' = passes + 1
    /\ now' = passes + 1
    /\ todo' = {[port |-> l.port, pid |-> l.pid, proc |-> l.proc] : l \in listeners}
    /\ seenIDs' = {}
    /\ seenNames' = {}
    /\ notifs' = <<>>
    /\ dpc' = "loop"
    /\ scanErr' = FALSE
    /\ UNCHANGED << genCall, apiReq, pkgVars, envVars, storeVars, entries, usedNames,
                    tableVars, cur, reqs, apiCalls, restarts, lastRename, blDisk, resp >>

\* Replaces DiscoverScanError: a scan that failed is taken for a scan that
\* found no listener.
DiscoverScanErrorAsEmpty ==
    /\ dpc = "idle"
    /\ passes < MaxPass
    /\ passes' = passes + 1
    /\ now' = passes + 1
    /\ todo' = {}
    /\ seenIDs' = {}
    /\ seenNames' = {}
    /\ notifs' = <<>>
    /\ dpc' = "loop"
    /\ scanErr' = TRUE
    /\ UNCHANGED << genCall, apiReq, pkgVars, envVars, storeVars, entries, usedNames,
                    tableVars, cur, reqs, apiCalls, restarts, lastRename, blDisk, resp >>

\* portscan.Scan returns an error: the pass logs it and returns.
DiscoverScanError ==
    /\ dpc = "idle"
    /\ passes < MaxPass
    /\ passes' = passes + 1
    /\ notifs' = <<>>
    /\ scanErr' = TRUE
    /\ UNCHANGED << genCall, apiReq, pkgVars, envVars, storeVars, entries, usedNames,
                    tableVars, dpc, todo, seenIDs, seenNames, now, cur, reqs, apiCalls,
                    restarts, lastRename, blDisk, resp >>

DiscoverSkip ==
    /\ dpc = "loop"
    /\ \E l \in todo :
          /\ Skipped(l)
          /\ todo' = todo \ {l}
    /\ UNCHANGED << genCall, apiReq, scanErr, pkgVars, envVars, storeVars, entries, usedNames, tableVars, dpc, seenIDs,
                    seenNames, now, cur, notifs, passes, reqs, apiCalls, restarts,
                    lastRename, blDisk, resp >>

\* Replaces KnownRecord: the name is derived again from the process.
KnownRecordRenamed(existing, l, useTLS, t) ==
    [existing EXCEPT !.name = CleanedBase(ExeOf(l), CwdOf(l), ArgsOf(l)) \o DotLocalhost,
                     !.port = l.port, !.pid = l.pid, !.useTLS = useTLS,
                     !.isActive = TRUE, !.lastSeen = t]

\* The record of a known identity after the loop body has updated it in place.
KnownRecord(existing, l, useTLS, t) ==
    [existing EXCEPT !.port = l.port, !.pid = l.pid, !.useTLS = useTLS,
                     !.isActive = TRUE, !.lastSeen = t]

needsSave(existing, l, useTLS) ==
    \/ existing.port # l.port
    \/ existing.pid # l.pid
    \/ existing.useTLS # useTLS
    \/ ~existing.isActive

\* Known identity: update the record and save it when a persisted field changed.
DiscoverKnownStore ==
    /\ dpc = "loop"
    /\ \E l \in todo :
          LET id == IdOf(l)
              useTLS == DetectProtocol(l.port) = "https"
              updated == KnownRecord(records[id], l, useTLS, now)
          IN  /\ ~Skipped(l)
              /\ id \in DOMAIN records
              /\ seenIDs' = seenIDs \cup {id}
              /\ seenNames' = seenNames \cup {records[id].name}
              /\ records' = [records EXCEPT ![id] = updated]
              /\ IF needsSave(records[id], l, useTLS)
                 THEN /\ names' = SaveNames(records, names, updated)
                      /\ disk' = persist(records')
                 ELSE UNCHANGED << names, disk >>
              /\ cur' = [id |-> id, name |-> <<>>, port |-> l.port, pid |-> l.pid,
                         useTLS |-> useTLS]
              /\ todo' = todo \ {l}
    /\ dpc' = "known"
    /\ UNCHANGED << genCall, apiReq, scanErr, pkgVars, envVars, entries, usedNames, tableVars, now, notifs, passes, reqs,
                    apiCalls, restarts, lastRename, blDisk, resp >>

\* The Service object of a known identity after the update under s.mu.
KnownService(svc, c) ==
    [svc EXCEPT !.Port = c.port, !.PID = c.pid, !.UseTLS = c.useTLS,
                !.Proxy = IF svc.UseTLS # c.useTLS THEN NoProxy ELSE svc.Proxy]

\* Known identity: update the runtime service found under the record's name.
DiscoverKnownTable ==
    /\ dpc = "known"
    /\ LET name == records[cur.id].name
       IN  IF name \in DOMAIN services
           THEN objects' = [objects EXCEPT ![services[name]] = KnownService(@, cur)]
           ELSE UNCHANGED objects
    /\ cur' = NoCur
    /\ dpc' = "loop"
    /\ UNCHANGED << genCall, apiReq, scanErr, pkgVars, envVars, storeVars, entries, usedNames, services, todo, seenIDs,
                    seenNames, now, notifs, passes, reqs, apiCalls, restarts, lastRename, blDisk, resp >>

\* The record synthesized for a new identity.
NewRecord(id, name, l, useTLS, t) ==
    [id |-> id, name |-> name, port |-> l.port, targetHost |-> <<>>, pid |-> l.pid,
     exePath |-> ExeOf(l), args |-> ArgsOf(l), userDefined |-> FALSE, isActive |-> TRUE,
     lastSeen |-> t, keep |-> FALSE, useTLS |-> useTLS]

\* New identity: allocate a name and save the record.
DiscoverNewStore ==
    /\ dpc = "loop"
    /\ \E l \in todo :
          /\ ~Skipped(l)
          /\ IdOf(l) \notin DOMAIN records
          /\ \E gen \in {GenerateName(usedNames, ExeOf(l), CwdOf(l), ArgsOf(l))} :
                LET id == IdOf(l)
                    useTLS == DetectProtocol(l.port) = "https"
                    record == NewRecord(id, gen.name, l, useTLS, now)
                IN  /\ seenIDs' = seenIDs \cup {id}
                    /\ usedNames' = gen.used
                    /\ records' = SaveRecords(records, record)
                    /\ names' = SaveNames(records, names, record)
                    /\ disk' = persist(records')
                    /\ cur' = [id |-> id, name |-> gen.name, port |-> l.port,
                               pid |-> l.pid, useTLS |-> useTLS]
          /\ todo' = todo \ {l}
    /\ dpc' = "new"
    /\ UNCHANGED << genCall, apiReq, scanErr, pkgVars, envVars, entries, tableVars, seenNames, now, notifs, passes, reqs,
                    apiCalls, restarts, lastRename, blDisk, resp >>

\* The Service object created for a new identity.
NewService(c) ==
    [ID |-> c.id, Name |-> c.name, Port |-> c.port, TargetHost |-> Loopback, PID |-> c.pid,
     UseTLS |-> c.useTLS, Proxy |-> NoProxy]

\* New identity: add the runtime service under s.mu, then notify.
DiscoverNewTable ==
    /\ dpc = "new"
    /\ services' = MapPut(services, cur.name, cur.id)
    /\ objects' = MapPut(objects, cur.id, NewService(cur))
    /\ seenNames' = seenNames \cup {cur.name}
    /\ notifs' = Append(notifs, [event |-> "service_discovered", name |-> cur.name])
    /\ cur' = NoCur
    /\ dpc' = "loop"
    /\ UNCHANGED << genCall, apiReq, scanErr, pkgVars, envVars, storeVars, entries, usedNames, todo, seenIDs, now, passes,
                    reqs, apiCalls, restarts, lastRename, blDisk, resp >>

\* One iteration of the closing loop: the service found under a table name
\* that was not seen in this pass.
MarkOne(st, name, t) ==
    LET id == objects[services[name]].ID
        record == [st.records[id] EXCEPT !.isActive = FALSE, !.lastSeen = t]
    IN  IF id \in DOMAIN st.records /\ st.records[id].isActive
        THEN [records |-> SaveRecords(st.records, record),
              names |-> SaveNames(st.records, st.names, record),
              sent |-> Append(st.sent, [event |-> "service_offline", name |-> name])]
        ELSE st

\* The closing loop over s.services, in the order the map yields its keys.
RECURSIVE MarkInactive(_, _, _)
MarkInactive(st, order, t) ==
    IF order = <<>> THEN st
    ELSE CHOOSE r \in {MarkInactive(nx, Tail(order), t) :
                          nx \in {MarkOne(st, order[1], t)}} : TRUE

DiscoverFinish ==
    /\ dpc = "loop"
    /\ todo = {}
    /\ \E order \in Orders({n \in DOMAIN services : n \notin seenNames}) :
          LET st == MarkInactive([records |-> records, names |-> names, sent |-> <<>>],
                                 order, now)
          IN  /\ records' = st.records
              /\ names' = st.names
              /\ disk' = IF st.sent = <<>> THEN disk ELSE persist(st.records)
              /\ notifs' = notifs \o st.sent
    /\ dpc' = "idle"
    /\ UNCHANGED << genCall, apiReq, scanErr, pkgVars, envVars, entries, usedNames, tableVars, todo, seenIDs, seenNames, now,
                    cur, passes, reqs, apiCalls, restarts, lastRename, blDisk, resp >>

(***************************************************************************)
(* cmd/daemon/main.go: the admin API                                       *)
(***************************************************************************)
NoSuchName == <<"x">> \o DotLocalhost

\* Replaces EnsureSuffix: the name is taken as the user typed it.
EnsureSuffixNever(name) == name

\* if !strings.HasSuffix(name, ".localhost") { name = name + ".localhost" }
EnsureSuffix(name) == IF HasSuffix(name, DotLocalhost) THEN name ELSE name \o DotLocalhost

\* handleAPIRename, the whole handler runs under s.mu; the write of the
\* services file inside UpdateName succeeds or fails on opening the file.
ApiRename ==
    /\ apiCalls < MaxApi
    /\ apiCalls' = apiCalls + 1
    /\ \E oldName \in (DOMAIN services) \cup {NoSuchName}, input \in RenameInputs :
          LET newName == EnsureSuffix(input)
              found == {n \in DOMAIN services : objects[services[n]].Name = oldName}
          IN  /\ apiReq' = [op |-> "rename", name |-> oldName, arg |-> newName]
              /\ IF found = {}
                 THEN /\ resp' = 404
                      /\ UNCHANGED << storeVars, tableVars, lastRename >>
                 ELSE \E n \in found :
                        LET obj == services[n]
                            id == objects[obj].ID
                        IN  IF UpdateNameError(records, names, id, newName) # ""
                            THEN /\ resp' = 400
                                 /\ UNCHANGED << storeVars, tableVars, lastRename >>
                            ELSE \E out \in {"ok", "open"} :
                                 /\ records' = UpdateNameRecords(records, id, newName)
                                 /\ names' = UpdateNameNames(records, names, id, newName)
                                 /\ disk' = WriteFileDoc(disk, persist(records'), out)
                                 /\ IF WriteFileError(out) # ""
                                    THEN /\ resp' = 400
                                         /\ UNCHANGED << tableVars, lastRename >>
                                    ELSE /\ services' =
                                              MapPut(MapRemove(services, objects[obj].Name),
                                                     newName, obj)
                                         /\ objects' = [objects EXCEPT ![obj].Name = newName]
                                         /\ lastRename' = [id |-> id, old |-> oldName,
                                                           new |-> newName,
                                                           restarted |-> FALSE]
                                         /\ resp' = 200
    /\ UNCHANGED << genCall, scanErr, pkgVars, envVars, entries, usedNames, discVars, reqs,
                    restarts, blDisk >>

\* handleAPIKeep
ApiKeep ==
    /\ apiCalls < MaxApi
    /\ apiCalls' = apiCalls + 1
    /\ \E name \in (DOMAIN services) \cup {NoSuchName}, keep \in BOOLEAN :
          LET found == {n \in DOMAIN services : objects[services[n]].Name = name}
          IN  /\ apiReq' = [op |-> "keep", name |-> name, arg |-> <<>>]
              /\ IF found = {}
                 THEN /\ resp' = 404
                      /\ UNCHANGED storeVars
                 ELSE \E n \in found :
                        LET id == objects[services[n]].ID
                            record == [records[id] EXCEPT !.keep = keep]
                        IN  /\ resp' = 200
                            /\ IF id \in DOMAIN records
                               THEN /\ records' = SaveRecords(records, record)
                                    /\ names' = SaveNames(records, names, record)
                                    /\ disk' = persist(records')
                               ELSE UNCHANGED storeVars
    /\ UNCHANGED << genCall, scanErr, pkgVars, envVars, entries, usedNames, tableVars,
                    discVars, reqs, restarts, lastRename, blDisk >>

\* handleAPIBlacklist
ApiBlacklist ==
    /\ apiCalls < MaxApi
    /\ apiCalls' = apiCalls + 1
    /\ \E input \in BlacklistInputs :
          /\ apiReq' = [op |-> "blacklist", name |-> <<>>, arg |-> input.value]
          /\ IF AddError(input.type, input.value) # ""
             THEN /\ resp' = 400
                  /\ UNCHANGED << entries, blDisk >>
             ELSE /\ entries' = Append(entries, [id |-> apiCalls + 1, type |-> input.type,
                                                 value |-> input.value])
                  /\ blDisk' = entries'
                  /\ resp' = 200
    /\ UNCHANGED << genCall, scanErr, pkgVars, envVars, storeVars, usedNames, tableVars,
                    discVars, reqs, restarts, lastRename >>

(***************************************************************************)
(* cmd/daemon/main.go: Server.handleRequest                                *)
(***************************************************************************)
\* The request to start next: requests are numbered in the order they arrive.
NextRequest(i) == reqs[i].pc = "new" /\ \A j \in 1..(i - 1) : reqs[j].pc # "new"

\* findService under s.mu.RLock
ReqLookup ==
    \E i \in 1..MaxReq, host \in (DOMAIN services) \cup {NoSuchName} :
       /\ NextRequest(i)
       /\ host = NoSuchName => services = EmptyMap
       /\ reqs' = [reqs EXCEPT ![i] =
                     IF host \in DOMAIN services
                     THEN [@ EXCEPT !.pc = "check", !.host = host, !.service = services[host]]
                     ELSE [@ EXCEPT !.pc = "done", !.host = host, !.outcome = "dashboard"]]
       /\ UNCHANGED << genCall, apiReq, scanErr, pkgVars, envVars, storeVars, entries, usedNames, tableVars, discVars,
                       apiCalls, restarts, lastRename, blDisk, resp >>

\* if service.Proxy == nil
ReqCheck ==
    \E i \in 1..MaxReq :
       /\ reqs[i].pc = "check"
       /\ reqs' = [reqs EXCEPT ![i] =
                     IF objects[reqs[i].service].Proxy = NoProxy
                     THEN [@ EXCEPT !.pc = "construct", !.first = TRUE]
                     ELSE [@ EXCEPT !.pc = "delegate"]]
       /\ UNCHANGED << genCall, apiReq, scanErr, pkgVars, envVars, storeVars, entries, usedNames, tableVars, discVars,
                       apiCalls, restarts, lastRename, blDisk, resp >>

\* The proxy handleRequest constructs for a service.
NewProxy(svc) ==
    [scheme |-> IF svc.UseTLS THEN "https" ELSE "http", host |-> svc.TargetHost,
     port |-> svc.Port]

\* service.Proxy = httputil.NewSingleHostReverseProxy(target)
ReqConstruct ==
    \E i \in 1..MaxReq :
       /\ reqs[i].pc = "construct"
       /\ objects' = [objects EXCEPT ![reqs[i].service].Proxy =
                        NewProxy(objects[reqs[i].service])]
       /\ reqs' = [reqs EXCEPT ![i].pc = "delegate"]
       /\ UNCHANGED << genCall, apiReq, scanErr, pkgVars, envVars, storeVars, entries, usedNames, services, discVars,
                       apiCalls, restarts, lastRename, blDisk, resp >>

\* service.Proxy.ServeHTTP(w, r): a nil pointer panics and the request fails.
ReqDelegate ==
    \E i \in 1..MaxReq :
       /\ reqs[i].pc = "delegate"
       /\ reqs' = [reqs EXCEPT ![i] =
                     IF objects[reqs[i].service].Proxy = NoProxy
                     THEN [@ EXCEPT !.pc = "done", !.outcome = "panic"]
                     ELSE [@ EXCEPT !.pc = "done", !.outcome = "proxied",
                                    !.target = objects[reqs[i].service].Proxy]]
       /\ UNCHANGED << genCall, apiReq, scanErr, pkgVars, envVars, storeVars, entries, usedNames, tableVars, discVars,
                       apiCalls, restarts, lastRename, blDisk, resp >>

(***************************************************************************)
(* cmd/daemon/main.go: main, run again after the daemon has been stopped   *)
(***************************************************************************)
\* The Service object main creates for a stored record.
LoadedService(record) ==
    [ID |-> record.id, Name |-> record.name, Port |-> record.port,
     TargetHost |-> EffectiveTargetHost(record), PID |-> record.pid,
     UseTLS |-> record.useTLS, Proxy |-> NoProxy]

\* One iteration of the loop of main over store.List().
LoadService(st, record) ==
    [used |-> GenerateName(st.used, record.exePath, <<>>, record.args).used,
     services |-> MapPut(st.services, record.name, record.id),
     objects |-> MapPut(st.objects, record.id, LoadedService(record))]

\* The loop of main over store.List(), in the order the map yields the records.
RECURSIVE LoadServices(_, _, _)
LoadServices(recs, order, st) ==
    IF order = <<>> THEN st
    ELSE CHOOSE r \in {LoadServices(recs, Tail(order), nx) :
                          nx \in {LoadService(st, recs[order[1]])}} : TRUE

Restart ==
    /\ restarts < MaxRestart
    /\ restarts' = restarts + 1
    /\ records' = disk
    /\ \E fileOrder \in Orders(DOMAIN disk) : names' = LoadNames(disk, fileOrder, EmptyMap)
    /\ entries' = blDisk
    /\ \E listOrder \in Orders(DOMAIN disk) :
          \E st \in {LoadServices(disk, listOrder,
                        [used |-> {}, services |-> EmptyMap, objects |-> EmptyMap])} :
             /\ usedNames' = st.used
             /\ services' = st.services
             /\ objects' = st.objects
    /\ dpc' = "idle"
    /\ todo' = {}
    /\ seenIDs' = {}
    /\ seenNames' = {}
    /\ now' = 0
    /\ cur' = NoCur
    /\ notifs' = <<>>
    /\ reqs' = [i \in 1..MaxReq |->
                  IF reqs[i].pc \in {"new", "done"} THEN reqs[i]
                  ELSE [reqs[i] EXCEPT !.pc = "done", !.outcome = "aborted"]]
    /\ lastRename' = IF lastRename = NoRename THEN NoRename
                     ELSE [lastRename EXCEPT !.restarted = TRUE]
    /\ resp' = 0
    /\ apiReq' = NoApiReq
    /\ UNCHANGED << genCall, scanErr, pkgVars, envVars, disk, passes, apiCalls, blDisk >>

Next ==
    \/ EnvStart
    \/ EnvStop
    \/ DiscoverScan
    \/ DiscoverScanError
    \/ DiscoverSkip
    \/ DiscoverKnownStore
    \/ DiscoverKnownTable
    \/ DiscoverNewStore
    \/ DiscoverNewTable
    \/ DiscoverFinish
    \/ ApiRename
    \/ ApiKeep
    \/ ApiBlacklist
    \/ ReqLookup
    \/ ReqCheck
    \/ ReqConstruct
    \/ ReqDelegate
    \/ Restart

Spec == Init /\ [][Next]_vars

\* The discovery loop with the admin API and restarts of the daemon.
NextAdmin ==
    \/ EnvStart
    \/ EnvStop
    \/ DiscoverScan
    \/ DiscoverScanError
    \/ DiscoverSkip
    \/ DiscoverKnownStore
    \/ DiscoverKnownTable
    \/ DiscoverNewStore
    \/ DiscoverNewTable
    \/ DiscoverFinish
    \/ ApiRename
    \/ ApiKeep
    \/ ApiBlacklist
    \/ Restart

SpecAdmin == Init /\ [][NextAdmin]_vars

\* The discovery loop with the request router.
NextProxy ==
    \/ EnvStart
    \/ EnvStop
    \/ DiscoverScan
    \/ DiscoverSkip
    \/ DiscoverKnownStore
    \/ DiscoverKnownTable
    \/ DiscoverNewStore
    \/ DiscoverNewTable
    \/ DiscoverFinish
    \/ ReqLookup
    \/ ReqCheck
    \/ ReqConstruct
    \/ ReqDelegate

SpecProxy == Init /\ [][NextProxy]_vars

\* The listener of the service that the user has asked to keep.
KeptListener == [port |-> 8000, pid |-> FirstPid - 1, proc |-> 1, proto |-> "http"]

\* The daemon after its first pass has discovered KeptListener on an empty
\* configuration directory and POST /api/keep has set keep on its record; proxy
\* is the proxy object its Service holds.
DaemonWithService(proxy) ==
    LET l == KeptListener
        id == IdOf(l)
        gen == GenerateName({}, ExeOf(l), CwdOf(l), ArgsOf(l))
        record == [NewRecord(id, gen.name, l, FALSE, 0) EXCEPT !.keep = TRUE]
        c == [id |-> id, name |-> gen.name, port |-> l.port, pid |-> l.pid,
              useTLS |-> FALSE]
    IN  /\ listeners = {l}
        /\ envSteps = 0
        /\ records = MapPut(EmptyMap, id, record)
        /\ names = MapPut(EmptyMap, gen.name, id)
        /\ disk = persist(MapPut(EmptyMap, id, record))
        /\ entries = <<>>
        /\ usedNames = gen.used
        /\ services = MapPut(EmptyMap, gen.name, id)
        /\ objects = MapPut(EmptyMap, id, [NewService(c) EXCEPT !.Proxy = proxy])
        /\ dpc = "idle"
        /\ todo = {}
        /\ seenIDs = {}
        /\ seenNames = {}
        /\ now = 0
        /\ cur = NoCur
        /\ notifs = <<>>
        /\ passes = 0
        /\ reqs = [i \in 1..MaxReq |-> NoRequest]
        /\ apiCalls = 0
        /\ restarts = 0
        /\ lastRename = NoRename
        /\ blDisk = <<>>
        /\ resp = 200
        /\ genCall = NoCall
        /\ apiReq = [op |-> "keep", name |-> gen.name, arg |-> <<>>]
        /\ scanErr = FALSE
        /\ stCall = NoStoreCall
        /\ fileState = "complete"
        /\ InterCert = 1
        /\ InterKey = 1
        /\ cache = EmptyMap
        /\ clock = 0
        /\ icall = NoIssuerCall
        /\ rpc = "idle"
        /\ tlsRet = NoTlsRet
        /\ keys = 0
        /\ hs = [h \in 1..MaxHandshakes |-> NoHandshake]
        /\ fnCall = NoFnCall
        /\ cliCall = NoCliCall
        /\ sth = [g \in StoreCallers |-> NoStoreOp]
        /\ interFiles = [cert |-> 1, key |-> 1]
        /\ rcall = NoRotateCall

\* No request has been made for the service yet.
InitKept == DaemonWithService(NoProxy)

\* A request for the service has been served: its Service holds the proxy
\* that handleRequest has constructed.
InitServed ==
    DaemonWithService([scheme |-> "http", host |-> Loopback, port |-> KeptListener.port])

\* The discovery loop with the request router, from the daemon whose service
\* has its proxy.
SpecServed == InitServed /\ [][NextProxy]_vars

\* The discovery loop with the admin API and restarts, from the daemon with a
\* kept service.
SpecKept == InitKept /\ [][NextAdmin]_vars

(***************************************************************************)
(* internal/naming: a Generator used on its own, as the package's callers  *)
(* and tests use it: NewGenerator, then GenerateName and ReleaseName.      *)
(***************************************************************************)
\* usedNames after GenerateName has been called n+1 times for one base name.
Allocated(cleaned, n) == {cleaned} \cup {Suffixed(cleaned, k) : k \in 1..n}

\* The base name every process of Procs is given.
ProcBase == CleanedBase(Procs[1].exePath, Procs[1].cwd, Procs[1].args)

\* How many calls came before: none, a few, and up to the last numeric suffix.
GenFills == {0, 1, 2, MaxSuffix - 3, MaxSuffix - 2, MaxSuffix - 1}

\* The names ReleaseName may be called with.
ReleaseInputs ==
    { ProcBase \o DotLocalhost, Suffixed(ProcBase, 1) \o DotLocalhost,
      Suffixed(ProcBase, 2), Suffixed(ProcBase, MaxSuffix - 1) \o DotLocalhost }

InitGen ==
    /\ Init!1 /\ Init!2 /\ Init!3 /\ Init!4 /\ Init!5 /\ Init!6
    /\ usedNames \in {{}} \cup {Allocated(ProcBase, n) : n \in GenFills}
    /\ services = EmptyMap
    /\ objects = EmptyMap
    /\ dpc = "idle"
    /\ todo = {}
    /\ seenIDs = {}
    /\ seenNames = {}
    /\ now = 0
    /\ cur = NoCur
    /\ notifs = <<>>
    /\ passes = 0
    /\ reqs = [i \in 1..MaxReq |-> NoRequest]
    /\ apiCalls = 0
    /\ restarts = 0
    /\ lastRename = NoRename
    /\ blDisk = <<>>
    /\ resp = 0
    /\ genCall = NoCall
    /\ apiReq = NoApiReq
    /\ scanErr = FALSE
    /\ stCall = NoStoreCall
    /\ fileState = "complete"
    /\ InterCert = 1
    /\ InterKey = 1
    /\ cache = EmptyMap
    /\ clock = 0
    /\ icall = NoIssuerCall
    /\ rpc = "idle"
    /\ tlsRet = NoTlsRet
    /\ keys = 0
    /\ hs = [h \in 1..MaxHandshakes |-> NoHandshake]
    /\ fnCall = NoFnCall
    /\ cliCall = NoCliCall
    /\ sth = [g \in StoreCallers |-> NoStoreOp]
    /\ interFiles = [cert |-> 1, key |-> 1]
    /\ rcall = NoRotateCall

\* g.GenerateName(exePath, cwd, args)
Generate ==
    /\ genCall.ops < MaxGen
    /\ \E p \in 1..Len(Procs) :
          \E gen \in {GenerateName(usedNames, Procs[p].exePath, Procs[p].cwd,
                                   Procs[p].args)} :
             /\ usedNames' = gen.used
             /\ genCall' = [ops |-> genCall.ops + 1, kind |-> "generate",
                            exePath |-> Procs[p].exePath,
                            cleaned |-> CleanedBase(Procs[p].exePath, Procs[p].cwd,
                                                    Procs[p].args),
                            name |-> gen.name]
    /\ UNCHANGED << apiReq, scanErr, pkgVars, envVars, storeVars, entries, tableVars,
                    discVars, reqs, apiCalls, restarts, lastRename, blDisk, resp >>

\* g.ReleaseName(name)
Release ==
    /\ genCall.ops < MaxGen
    /\ \E name \in ReleaseInputs :
          /\ usedNames' = ReleaseName(usedNames, name)
          /\ genCall' = [ops |-> genCall.ops + 1, kind |-> "release", exePath |-> <<>>,
                         cleaned |-> <<>>, name |-> name]
    /\ UNCHANGED << apiReq, scanErr, pkgVars, envVars, storeVars, entries, tableVars,
                    discVars, reqs, apiCalls, restarts, lastRename, blDisk, resp >>

NextGen ==
    \/ Generate
    \/ Release

SpecGen == InitGen /\ [][NextGen]_vars

(***************************************************************************)
(* internal/storage: a Store and a BlacklistStore used on their own, as    *)
(* the command line and the package's tests use them.                      *)
(***************************************************************************)
MaxStoreOps == 3

StoreIds == { <<"i", "1">>, <<"i", "2">> }

StoreNames == { <<"a">> \o DotLocalhost, <<"b">> \o DotLocalhost }

\* The variables of the daemon, which the packages on their own leave alone.
daemonVars ==
    << envVars, usedNames, tableVars, discVars, reqs, apiCalls, restarts, lastRename, resp,
       genCall, apiReq, scanErr >>

\* The calls of the functions and of the command line tool.
sideVars == << fnCall, cliCall, raceVars, caVars >>

\* A record as a caller of Save builds it.
StoreRecord(id, name) ==
    [id |-> id, name |-> name, port |-> 3000, targetHost |-> <<>>, pid |-> 0,
     exePath |-> <<>>, args |-> <<>>, userDefined |-> FALSE, isActive |-> FALSE,
     lastSeen |-> 0, keep |-> FALSE, useTLS |-> FALSE]

\* The store is usable: the process has not died and NewStore has not failed.
StoreUp == stCall.err \notin {"crashed", "failed to load store"}

\* What a mutating operation leaves behind once it has changed the maps to
\* recs and nms and called persist, which came to out.
StoreWrites(kind, id, name, recs, nms, out) ==
    /\ records' = IF out = "crash" THEN EmptyMap ELSE recs
    /\ names' = IF out = "crash" THEN EmptyMap ELSE nms
    /\ disk' = WriteFileDoc(disk, persist(recs), out)
    /\ fileState' = WriteFileState(fileState, out)
    /\ stCall' = [ops |-> stCall.ops + 1, kind |-> kind, id |-> id, name |-> name,
                  err |-> WriteFileError(out)]

\* What an operation leaves behind when it returns err before changing anything.
StoreRejects(kind, id, name, err) ==
    /\ stCall' = [ops |-> stCall.ops + 1, kind |-> kind, id |-> id, name |-> name,
                  err |-> err]
    /\ UNCHANGED << storeVars, fileState >>

\* store.Save(record), with a record built by the caller or, inPlace, with the
\* record that Get returned and the caller has given the name.
StoreSave ==
    /\ StoreUp
    /\ stCall.ops < MaxStoreOps
    /\ \E id \in StoreIds, name \in StoreNames, inPlace \in BOOLEAN,
          out \in WriteFileOutcomes :
          /\ inPlace => id \in DOMAIN records
          /\ LET record == IF inPlace THEN [records[id] EXCEPT !.name = name]
                           ELSE StoreRecord(id, name)
                 before == IF inPlace THEN MapPut(records, id, record) ELSE records
             IN  StoreWrites("Save", id, name, SaveRecords(before, record),
                             SaveNames(before, names, record), out)
    /\ UNCHANGED << daemonVars, sideVars, tlsVars, entries, blDisk >>

\* store.UpdateName(id, newName)
StoreUpdateName ==
    /\ StoreUp
    /\ stCall.ops < MaxStoreOps
    /\ \E id \in StoreIds, newName \in StoreNames, out \in WriteFileOutcomes :
          IF UpdateNameError(records, names, id, newName) # ""
          THEN StoreRejects("UpdateName", id, newName,
                            UpdateNameError(records, names, id, newName))
          ELSE StoreWrites("UpdateName", id, newName,
                           UpdateNameRecords(records, id, newName),
                           UpdateNameNames(records, names, id, newName), out)
    /\ UNCHANGED << daemonVars, sideVars, tlsVars, entries, blDisk >>

\* store.UpdateKeep(id, keep)
StoreUpdateKeep ==
    /\ StoreUp
    /\ stCall.ops < MaxStoreOps
    /\ \E id \in StoreIds, keep \in BOOLEAN, out \in WriteFileOutcomes :
          IF UpdateKeepError(records, id) # ""
          THEN StoreRejects("UpdateKeep", id, <<>>, UpdateKeepError(records, id))
          ELSE StoreWrites("UpdateKeep", id, <<>>, UpdateKeepRecords(records, id, keep),
                           names, out)
    /\ UNCHANGED << daemonVars, sideVars, tlsVars, entries, blDisk >>

\* store.Remove(id)
StoreRemove ==
    /\ StoreUp
    /\ stCall.ops < MaxStoreOps
    /\ \E id \in StoreIds, out \in WriteFileOutcomes :
          IF RemoveError(records, id) # ""
          THEN StoreRejects("Remove", id, <<>>, RemoveError(records, id))
          ELSE StoreWrites("Remove", id, <<>>, RemoveRecords(records, id),
                           RemoveNames(records, names, id), out)
    /\ UNCHANGED << daemonVars, sideVars, tlsVars, entries, blDisk >>

\* store.RemoveByName(name)
StoreRemoveByName ==
    /\ StoreUp
    /\ stCall.ops < MaxStoreOps
    /\ \E name \in StoreNames, out \in WriteFileOutcomes :
          IF RemoveByNameError(names, name) # ""
          THEN StoreRejects("RemoveByName", <<>>, name, RemoveByNameError(names, name))
          ELSE IF RemoveError(records, names[name]) # ""
          THEN StoreRejects("RemoveByName", names[name], name,
                            RemoveError(records, names[name]))
          ELSE StoreWrites("RemoveByName", names[name], name,
                           RemoveRecords(records, names[name]),
                           RemoveNames(records, names, names[name]), out)
    /\ UNCHANGED << daemonVars, sideVars, tlsVars, entries, blDisk >>

\* store.AddManualService(name, port, targetHost)
StoreAddManual ==
    /\ StoreUp
    /\ stCall.ops < MaxStoreOps
    /\ \E name \in StoreNames, out \in WriteFileOutcomes :
          LET record == ManualRecord(name, 3000, <<>>, 0)
          IN  IF AddManualError(names, name) # ""
              THEN StoreRejects("AddManualService", record.id, name,
                                AddManualError(names, name))
              ELSE StoreWrites("AddManualService", record.id, name,
                               SaveRecords(records, record),
                               SaveNames(records, names, record), out)
    /\ UNCHANGED << daemonVars, sideVars, tlsVars, entries, blDisk >>

\* NewStore(path) in the process started after the previous one died: load
\* fails on a file that does not hold a whole document.
StoreOpen ==
    /\ stCall.err = "crashed"
    /\ IF fileState = "torn"
       THEN /\ stCall' = [stCall EXCEPT !.kind = "NewStore", !.err = "failed to load store"]
            /\ UNCHANGED << records, names >>
       ELSE /\ stCall' = [stCall EXCEPT !.kind = "NewStore", !.err = ""]
            /\ records' = disk
            /\ \E fileOrder \in Orders(DOMAIN disk) :
                  names' = LoadNames(disk, fileOrder, EmptyMap)
    /\ entries' = blDisk
    /\ UNCHANGED << daemonVars, sideVars, tlsVars, disk, fileState, blDisk >>

\* blacklist.Add(entryType, value)
StoreBlacklistAdd ==
    /\ StoreUp
    /\ stCall.ops < MaxStoreOps
    /\ \E input \in BlacklistInputs, out \in RenameOutcomes :
          IF AddError(input.type, input.value) # ""
          THEN /\ stCall' = [ops |-> stCall.ops + 1, kind |-> "Add", id |-> <<>>,
                             name |-> input.value,
                             err |-> AddError(input.type, input.value)]
               /\ UNCHANGED << entries, blDisk >>
          ELSE /\ entries' = IF out = "crash" THEN <<>>
                             ELSE Append(entries, [id |-> stCall.ops + 1,
                                                   type |-> input.type,
                                                   value |-> input.value])
               /\ blDisk' = IF out = "ok"
                            THEN Append(entries, [id |-> stCall.ops + 1,
                                                  type |-> input.type,
                                                  value |-> input.value])
                            ELSE blDisk
               /\ stCall' = [ops |-> stCall.ops + 1, kind |-> "Add", id |-> <<>>,
                             name |-> input.value,
                             err |-> IF out = "ok" THEN ""
                                     ELSE IF out = "crash" THEN "crashed"
                                     ELSE "persist"]
    /\ UNCHANGED << daemonVars, sideVars, tlsVars, storeVars, fileState >>

\* The entries without the one at position i.
WithoutEntry(es, i) == SubSeq(es, 1, i - 1) \o SubSeq(es, i + 1, Len(es))

\* blacklist.Remove(id)
StoreBlacklistRemove ==
    /\ StoreUp
    /\ stCall.ops < MaxStoreOps
    /\ \E id \in 1..MaxStoreOps, out \in RenameOutcomes :
          IF \E i \in 1..Len(entries) : entries[i].id = id
          THEN LET i == CHOOSE j \in 1..Len(entries) : entries[j].id = id
               IN  /\ entries' = IF out = "crash" THEN <<>> ELSE WithoutEntry(entries, i)
                   /\ blDisk' = IF out = "ok" THEN WithoutEntry(entries, i) ELSE blDisk
                   /\ stCall' = [ops |-> stCall.ops + 1, kind |-> "BlacklistRemove",
                                 id |-> <<>>, name |-> <<>>,
                                 err |-> IF out = "ok" THEN ""
                                         ELSE IF out = "crash" THEN "crashed"
                                         ELSE "persist"]
          ELSE /\ stCall' = [ops |-> stCall.ops + 1, kind |-> "BlacklistRemove",
                             id |-> <<>>, name |-> <<>>,
                             err |-> "blacklist entry not found"]
               /\ UNCHANGED << entries, blDisk >>
    /\ UNCHANGED << daemonVars, sideVars, tlsVars, storeVars, fileState >>

NextStore ==
    \/ StoreSave
    \/ StoreUpdateName
    \/ StoreUpdateKeep
    \/ StoreRemove
    \/ StoreRemoveByName
    \/ StoreAddManual
    \/ StoreOpen
    \/ StoreBlacklistAdd
    \/ StoreBlacklistRemove

SpecStore == Init /\ [][NextStore]_vars

(***************************************************************************)
(* internal/tls/policy, internal/tls/ca, internal/tls/issuer: the domain   *)
(* policy, the intermediate of the CA and the Issuer with its cache. An    *)
(* intermediate is known by its generation: generation g of the key signs  *)
(* what generation g of the certificate verifies, and every generation of  *)
(* the certificate is signed by the root (RotateIntermediate).             *)
(***************************************************************************)
MaxTlsOps == 3

MaxClock == 24

MaxInter == 2

\* DefaultValidFor and renewBefore, in hours.
DefaultValidFor == 24

renewBefore == 1

\* Half of the default validity.
HalfDay == DefaultValidFor \div 2

DotTest == <<".", "t", "e", "s", "t">>

DotHomeArpa == <<".", "h", "o", "m", "e", ".", "a", "r", "p", "a">>

allowedTLDs ==
    { DotLocalhost, DotTest, <<".", "l", "o", "c", "a", "l", "d", "e", "v">>,
      <<".", "i", "n", "t", "e", "r", "n", "a", "l">>, DotHomeArpa }

\* strings.TrimSpace, on strings whose only white space is the blank.
TrimSpace(s) == Trim(s, " ")

\* The domain as ValidateDomain and ValidateWildcard look at it.
NormalizeDomain(domain) == ToLower(TrimSuffix(TrimSpace(domain), <<".">>))

\* Replaces matchesAllowed: a TLD on its own is not accepted.
matchesAllowedSuffix(domain) == \E tld \in allowedTLDs : HasSuffix(domain, tld)

matchesAllowed(domain) ==
    \E tld \in allowedTLDs : domain = Tail(tld) \/ HasSuffix(domain, tld)

\* Policy.ValidateDomain returns nil.
ValidateDomainOk(domain) ==
    NormalizeDomain(domain) # <<>> /\ matchesAllowed(NormalizeDomain(domain))

endsWithMultiLabelTLD(domain) == HasSuffix(domain, DotHomeArpa) \/ domain = Tail(DotHomeArpa)

\* Policy.ValidateWildcard returns nil.
ValidateWildcardOk(pattern) ==
    LET p == NormalizeDomain(pattern)
        rest == SubSeq(p, 3, Len(p))
    IN  /\ p # <<>>
        /\ HasPrefix(p, <<"*", ".">>)
        /\ ~Contains(rest, <<"*">>)
        /\ ValidateDomainOk(rest)
        /\ Len(Split(rest, ".")) >= (IF endsWithMultiLabelTLD(rest) THEN 3 ELSE 2)

\* Issue: every DNS name of the request passes the policy.
NamesAllowed(dnsNames) ==
    \A k \in 1..Len(dnsNames) :
       IF HasPrefix(dnsNames[k], <<"*", ".">>)
       THEN ValidateWildcardOk(dnsNames[k])
       ELSE ValidateDomainOk(dnsNames[k])

\* Replaces NotAfter: the certificate is valid until the moment it is issued.
NotAfterNow(t, validFor) == t

\* Issue: the end of the validity of a certificate issued at t.
NotAfter(t, validFor) == t + (IF validFor = 0 THEN DefaultValidFor ELSE validFor)

\* Replaces Fresh: a cached certificate is served until it expires.
FreshUntilExpiry(cached, t) == t < cached.expiry

\* GetCertificate: the cached certificate is further than renewBefore from
\* its expiry.
Fresh(cached, t) == t < cached.expiry - renewBefore

\* The chain [leaf, intermediate, root] of a certificate verifies: the
\* intermediate presented is the generation whose key signed the leaf.
ChainVerifies(cert) == cert.chain = cert.signedBy

\* The server names a TLS client may send.
SniInputs ==
    { <<"a">> \o DotLocalhost, <<"b">> \o DotTest, <<>>, <<"a", ".", "c", "o", "m">> }

\* The requests Issue may be called with.
IssueInputs ==
    { [dnsNames |-> << <<"a">> \o DotLocalhost >>, validFor |-> 0],
      [dnsNames |-> << <<"a">> \o DotLocalhost >>, validFor |-> 1],
      [dnsNames |-> << <<"b">> \o DotTest, <<"a">> \o DotLocalhost >>, validFor |-> 2],
      [dnsNames |-> << <<"*", ".">> \o DotLocalhost >>, validFor |-> 0],
      [dnsNames |-> << <<"*", ".", "a">> \o DotLocalhost >>, validFor |-> 0],
      [dnsNames |-> << <<"a", ".", "*">> \o DotLocalhost >>, validFor |-> 0],
      [dnsNames |-> << <<"a">> \o DotLocalhost, <<"a", ".", "c", "o", "m">> >>, validFor |-> 0],
      [dnsNames |-> <<>>, validFor |-> 0] }

\* The call returns err and no certificate.
IssuerFails(op, sni, err) ==
    /\ tlsRet' = [ops |-> tlsRet.ops + 1, op |-> op, sni |-> sni, err |-> err,
                  cert |-> NoCert]
    /\ icall' = NoIssuerCall

\* Replaces IssueBegin: the leaf key is generated first and the names are
\* validated afterwards.
IssueBeginKeyFirst ==
    /\ icall.pc = "idle"
    /\ tlsRet.ops < MaxTlsOps
    /\ keys' = keys + 1
    /\ \E req \in IssueInputs :
          IF req.dnsNames = <<>>
          THEN IssuerFails("issue", <<>>, "at least one DNS name or IP address is required")
          ELSE IF ~NamesAllowed(req.dnsNames)
          THEN IssuerFails("issue", req.dnsNames[1], "policy")
          ELSE /\ icall' = [pc |-> "sign", op |-> "issue", dnsNames |-> req.dnsNames,
                            validFor |-> req.validFor, leaf |-> NoCert]
               /\ UNCHANGED tlsRet
    /\ UNCHANGED << daemonVars, sideVars, storeVars, entries, blDisk, stCall, fileState, InterCert,
                    InterKey, cache, clock, rpc, hs >>

\* iss.Issue(req), up to the call of SignCertificate: the names are validated,
\* the leaf key is generated and the template is built.
IssueBegin ==
    /\ icall.pc = "idle"
    /\ tlsRet.ops < MaxTlsOps
    /\ \E req \in IssueInputs :
          IF req.dnsNames = <<>>
          THEN /\ IssuerFails("issue", <<>>, "at least one DNS name or IP address is required")
               /\ UNCHANGED keys
          ELSE IF ~NamesAllowed(req.dnsNames)
          THEN /\ IssuerFails("issue", req.dnsNames[1], "policy")
               /\ UNCHANGED keys
          ELSE /\ icall' = [pc |-> "sign", op |-> "issue", dnsNames |-> req.dnsNames,
                            validFor |-> req.validFor, leaf |-> NoCert]
               /\ keys' = keys + 1
               /\ UNCHANGED tlsRet
    /\ UNCHANGED << daemonVars, sideVars, storeVars, entries, blDisk, stCall, fileState, InterCert,
                    InterKey, cache, clock, rpc, hs >>

\* iss.GetCertificate(hello), up to its return or its call of Issue.
GetCertificate ==
    /\ icall.pc = "idle"
    /\ tlsRet.ops < MaxTlsOps
    /\ \E serverName \in SniInputs :
          IF serverName = <<>>
          THEN /\ IssuerFails("get", serverName, "no server name in ClientHello")
               /\ UNCHANGED keys
          ELSE IF ~ValidateDomainOk(serverName)
          THEN /\ IssuerFails("get", serverName, "policy")
               /\ UNCHANGED keys
          ELSE IF serverName \in DOMAIN cache /\ Fresh(cache[serverName], clock)
          THEN /\ tlsRet' = [ops |-> tlsRet.ops + 1, op |-> "get", sni |-> serverName,
                             err |-> "", cert |-> cache[serverName]]
               /\ icall' = NoIssuerCall
               /\ UNCHANGED keys
          ELSE /\ icall' = [pc |-> "sign", op |-> "get", dnsNames |-> <<serverName>>,
                            validFor |-> 0, leaf |-> NoCert]
               /\ keys' = keys + 1
               /\ UNCHANGED tlsRet
    /\ UNCHANGED << daemonVars, sideVars, storeVars, entries, blDisk, stCall, fileState, InterCert,
                    InterKey, cache, clock, rpc, hs >>

\* Issue: ca.SignCertificate reads InterCert and InterKey. With a key that is
\* not the key of the certificate, x509.CreateCertificate refuses in the
\* releases of Go that compare the two and signs in those that do not.
IssueSign ==
    /\ icall.pc = "sign"
    /\ \E refused \in BOOLEAN :
          /\ refused => InterCert # InterKey
          /\ IF refused
             THEN IssuerFails(icall.op, icall.dnsNames[1], "sign")
             ELSE /\ icall' = [icall EXCEPT
                                 !.pc = "chain",
                                 !.leaf = [serial |-> tlsRet.ops + 1,
                                           dnsNames |-> icall.dnsNames,
                                           expiry |-> NotAfter(clock, icall.validFor),
                                           signedBy |-> InterKey,
                                           chain |-> 0]]
                  /\ UNCHANGED tlsRet
    /\ UNCHANGED << daemonVars, sideVars, storeVars, entries, blDisk, stCall, fileState, InterCert,
                    InterKey, cache, clock, rpc, keys, hs >>

\* Issue: the chain is built with i.ca.InterCert as it is now, the result is
\* cached under the first DNS name and returned.
IssueChain ==
    /\ icall.pc = "chain"
    /\ LET cached == [icall.leaf EXCEPT !.chain = InterCert]
       IN  /\ cache' = MapPut(cache, icall.dnsNames[1], cached)
           /\ tlsRet' = [ops |-> tlsRet.ops + 1, op |-> icall.op,
                         sni |-> icall.dnsNames[1], err |-> "", cert |-> cached]
    /\ icall' = NoIssuerCall
    /\ UNCHANGED << daemonVars, sideVars, storeVars, entries, blDisk, stCall, fileState, InterCert,
                    InterKey, clock, rpc, keys, hs >>

\* ca.RotateIntermediate, the assignment ca.InterCert = cert.
RotateCert ==
    /\ rpc = "idle"
    /\ InterCert < MaxInter
    /\ InterCert' = InterCert + 1
    /\ rpc' = "key"
    /\ UNCHANGED << daemonVars, sideVars, storeVars, entries, blDisk, stCall, fileState, InterKey,
                    cache, clock, icall, tlsRet, keys, hs >>

\* ca.RotateIntermediate, the assignment ca.InterKey = interPriv.
RotateKey ==
    /\ rpc = "key"
    /\ InterKey' = InterCert
    /\ rpc' = "idle"
    /\ UNCHANGED << daemonVars, sideVars, storeVars, entries, blDisk, stCall, fileState, InterCert,
                    cache, clock, icall, tlsRet, keys, hs >>

\* Time passes between the calls, about half a day at a time: the clock
\* reaches the hour before the renewal window, the window and the expiry of a
\* certificate issued at 0.
Tick ==
    /\ icall.pc = "idle"
    /\ rpc = "idle"
    /\ \E d \in {HalfDay - 1, HalfDay} :
          /\ clock + d <= MaxClock
          /\ clock' = clock + d
    /\ UNCHANGED << daemonVars, sideVars, storeVars, entries, blDisk, stCall, fileState, InterCert,
                    InterKey, cache, icall, rpc, tlsRet, keys, hs >>

NextTLS ==
    \/ IssueBegin
    \/ GetCertificate
    \/ IssueSign
    \/ IssueChain
    \/ RotateCert
    \/ RotateKey
    \/ Tick

SpecTLS == Init /\ [][NextTLS]_vars

(***************************************************************************)
(* internal/tls/ca: RotateIntermediate as `nameport tls rotate` runs it, on *)
(* a CA that NewCA has loaded from the files, with the two files it        *)
(* rewrites. The generation written is the one of the call.                *)
(***************************************************************************)
MaxRotate == 4

\* The call returns err.
RotateReturns(err) == rcall' = [rcall EXCEPT !.pc = "idle", !.err = err]

\* RotateIntermediate, up to the first write: the key is generated and the
\* certificate is created and parsed, or one of these fails.
RotateBegin ==
    /\ rcall.pc = "idle"
    /\ rcall.calls < MaxRotate
    /\ \E failed \in BOOLEAN :
          rcall' = [pc |-> IF failed THEN "idle" ELSE "cert", calls |-> rcall.calls + 1,
                    gen |-> rcall.calls + 2,
                    err |-> IF failed THEN "create" ELSE ""]
    /\ UNCHANGED << daemonVars, fnCall, cliCall, raceVars, storeVars, entries, blDisk, stCall,
                    fileState, tlsVars, interFiles >>

\* writeFileAtomic of intermediate.pem: the file is replaced, or the write
\* fails and the call returns.
RotateWriteCert ==
    /\ rcall.pc = "cert"
    /\ \/ /\ interFiles' = [interFiles EXCEPT !.cert = rcall.gen]
          /\ rcall' = [rcall EXCEPT !.pc = "key"]
       \/ /\ RotateReturns("write")
          /\ UNCHANGED interFiles
    /\ UNCHANGED << daemonVars, fnCall, cliCall, raceVars, storeVars, entries, blDisk, stCall,
                    fileState, tlsVars >>

\* writeFileAtomic of intermediate.key: the file is replaced, or the write
\* fails and the call returns.
RotateWriteKey ==
    /\ rcall.pc = "key"
    /\ \/ /\ interFiles' = [interFiles EXCEPT !.key = rcall.gen]
          /\ rcall' = [rcall EXCEPT !.pc = "assign"]
       \/ /\ RotateReturns("write")
          /\ UNCHANGED interFiles
    /\ UNCHANGED << daemonVars, fnCall, cliCall, raceVars, storeVars, entries, blDisk, stCall,
                    fileState, tlsVars >>

\* ca.InterCert = cert; ca.InterKey = interPriv; return nil
RotateAssign ==
    /\ rcall.pc = "assign"
    /\ InterCert' = rcall.gen
    /\ InterKey' = rcall.gen
    /\ RotateReturns("")
    /\ UNCHANGED << daemonVars, fnCall, cliCall, raceVars, storeVars, entries, blDisk, stCall,
                    fileState, cache, clock, icall, rpc, tlsRet, keys, hs, interFiles >>

\* The process is killed after the first write or after the second, and the
\* next process loads the CA from the files (NewCA, parseCertAndKey).
RotateInterrupted ==
    /\ rcall.pc \in {"key", "assign"}
    /\ InterCert' = interFiles.cert
    /\ InterKey' = interFiles.key
    /\ RotateReturns("interrupted")
    /\ UNCHANGED << daemonVars, fnCall, cliCall, raceVars, storeVars, entries, blDisk, stCall,
                    fileState, cache, clock, icall, rpc, tlsRet, keys, hs, interFiles >>

NextCA ==
    \/ RotateBegin
    \/ RotateWriteCert
    \/ RotateWriteKey
    \/ RotateAssign
    \/ RotateInterrupted

SpecCA == Init /\ [][NextCA]_vars

(***************************************************************************)
(* internal/tls/issuer: GetCertificate as crypto/tls calls it, once per     *)
(* handshake and from a goroutine of its own, on the one Issuer.           *)
(***************************************************************************)
\* Replaces CacheInsert: an entry that is there is kept.
CacheInsertIfAbsent(c, name, cached) == IF name \in DOMAIN c THEN c ELSE MapPut(c, name, cached)

\* Issue: i.cache[req.DNSNames[0]] = cached, under i.mu.
CacheInsert(c, name, cached) == MapPut(c, name, cached)

\* The handshake is over and GetCertificate has returned err.
HsFails(h, sni, err) ==
    hs' = [hs EXCEPT ![h] = [pc |-> "done", sni |-> sni, leaf |-> NoCert, err |-> err,
                             cert |-> NoCert]]

\* GetCertificate of handshake h, up to its return or its call of Issue: the
\* cache is read under i.mu.RLock, and Issue validates the name again and
\* generates the leaf key.
HsLookup(h) ==
    /\ hs[h].pc = "idle"
    /\ \E serverName \in SniInputs :
          IF serverName = <<>>
          THEN HsFails(h, serverName, "no server name in ClientHello") /\ UNCHANGED keys
          ELSE IF ~ValidateDomainOk(serverName)
          THEN HsFails(h, serverName, "policy") /\ UNCHANGED keys
          ELSE IF serverName \in DOMAIN cache /\ Fresh(cache[serverName], clock)
          THEN /\ hs' = [hs EXCEPT ![h] = [pc |-> "done", sni |-> serverName,
                                           leaf |-> NoCert, err |-> "",
                                           cert |-> cache[serverName]]]
               /\ UNCHANGED keys
          ELSE /\ hs' = [hs EXCEPT ![h] = [pc |-> "sign", sni |-> serverName,
                                           leaf |-> [NoCert EXCEPT !.serial = keys + 1],
                                           err |-> "", cert |-> NoCert]]
               /\ keys' = keys + 1
    /\ UNCHANGED << daemonVars, sideVars, storeVars, entries, blDisk, stCall, fileState,
                    InterCert, InterKey, cache, clock, icall, rpc, tlsRet >>

\* Issue of handshake h: the certificate is signed for [serverName] and for
\* the default validity.
HsSign(h) ==
    /\ hs[h].pc = "sign"
    /\ hs' = [hs EXCEPT ![h] = [@ EXCEPT !.pc = "insert",
                                         !.leaf = [serial |-> hs[h].leaf.serial,
                                                   dnsNames |-> <<hs[h].sni>>,
                                                   expiry |-> NotAfter(clock, 0),
                                                   signedBy |-> InterKey,
                                                   chain |-> 0]]]
    /\ UNCHANGED << daemonVars, sideVars, storeVars, entries, blDisk, stCall, fileState,
                    InterCert, InterKey, cache, clock, icall, rpc, tlsRet, keys >>

\* Issue of handshake h: the chain is built, the result is inserted under
\* i.mu.Lock and the certificate that this call has made is returned.
HsInsert(h) ==
    /\ hs[h].pc = "insert"
    /\ LET cached == [hs[h].leaf EXCEPT !.chain = InterCert]
       IN  /\ cache' = CacheInsert(cache, hs[h].sni, cached)
           /\ hs' = [hs EXCEPT ![h] = [@ EXCEPT !.pc = "done", !.leaf = cached,
                                                !.cert = cached]]
    /\ UNCHANGED << daemonVars, sideVars, storeVars, entries, blDisk, stCall, fileState,
                    InterCert, InterKey, clock, icall, rpc, tlsRet, keys >>

\* Time passes between the handshakes: a call takes far less than an hour.
HsTick ==
    /\ \A h \in 1..MaxHandshakes : hs[h].pc \in {"idle", "done"}
    /\ Tick

NextRace ==
    \/ \E h \in 1..MaxHandshakes : HsLookup(h)
    \/ \E h \in 1..MaxHandshakes : HsSign(h)
    \/ \E h \in 1..MaxHandshakes : HsInsert(h)
    \/ HsTick

\* Handshakes against a daemon that has just started: the cache is empty.
SpecRace == Init /\ [][NextRace]_vars

(***************************************************************************)
(* SanitizeName, Policy.ValidateDomain and Policy.ValidateWildcard called  *)
(* on their own, as the tests of their packages call them.                 *)
(***************************************************************************)
\* The character c, n times.
Repeat(c, n) == [k \in 1..n |-> c]

\* What a domain may begin with, end with, and be followed by.
DomainHeads ==
    { <<>>, <<"a", ".">>, <<"A", ".", "b", ".">>, <<"x">>, <<" ", "a", ".">>, <<".">> }

DomainTLDs ==
    { Tail(DotLocalhost), <<"L", "o", "c", "a", "l", "H", "o", "s", "t">>, Tail(DotTest),
      <<"l", "o", "c", "a", "l", "d", "e", "v">>, <<"i", "n", "t", "e", "r", "n", "a", "l">>,
      Tail(DotHomeArpa), <<"a", "r", "p", "a">>, <<"c", "o", "m">>,
      Tail(DotLocalhost) \o <<".", "c", "o", "m">>, <<>> }

DomainTails == { <<>>, <<".">>, <<" ">>, <<".", ".">> }

\* The domains ValidateDomain is called with.
DomainInputs ==
    { head \o tld \o tail : head \in DomainHeads, tld \in DomainTLDs, tail \in DomainTails }

\* The patterns ValidateWildcard is called with.
WildcardInputs ==
    { star \o d : star \in { <<"*", ".">>, <<"*", "*", ".">>, <<"*", ".", "*", ".">>,
                             <<" ", "*", ".">>, <<>> },
                  d \in DomainInputs }
       \cup { <<"*">>, <<"m", "y", "a", "p", "p", ".", "*">> \o DotLocalhost }

\* The base names SanitizeName is called with: short ones, and ones that
\* reach MaxNameLen with a separator next to the cut.
SanitizeInputs ==
    { <<"M", "y", " ", "A", "p", "p">>, <<"-", "-", "a", "-", "-">>, <<>>, <<"_", "_">>,
      <<"a", "_", "b">>, <<"F", "o", "o", ".", "B", "a", "r">>, <<"a", "-", "-", "b">> }
       \cup { Repeat("a", n) \o sep \o <<"b", "c">> :
                 n \in (MaxNameLen - 3)..(MaxNameLen + 1),
                 sep \in { <<>>, <<"-">>, <<"_">>, <<"_", "_">>, <<".">> } }

\* policy.ValidateDomain(domain)
CallValidateDomain ==
    /\ fnCall.ops < MaxFnOps
    /\ \E domain \in DomainInputs :
          fnCall' = [ops |-> fnCall.ops + 1, fn |-> "ValidateDomain", arg |-> domain,
                     ok |-> ValidateDomainOk(domain), out |-> <<>>]
    /\ UNCHANGED << daemonVars, cliCall, raceVars, caVars, storeVars, entries, blDisk, stCall, fileState,
                    tlsVars >>

\* policy.ValidateWildcard(pattern)
CallValidateWildcard ==
    /\ fnCall.ops < MaxFnOps
    /\ \E pattern \in WildcardInputs :
          fnCall' = [ops |-> fnCall.ops + 1, fn |-> "ValidateWildcard", arg |-> pattern,
                     ok |-> ValidateWildcardOk(pattern), out |-> <<>>]
    /\ UNCHANGED << daemonVars, cliCall, raceVars, caVars, storeVars, entries, blDisk, stCall, fileState,
                    tlsVars >>

\* naming.SanitizeName(name)
CallSanitizeName ==
    /\ fnCall.ops < MaxFnOps
    /\ \E name \in SanitizeInputs :
          fnCall' = [ops |-> fnCall.ops + 1, fn |-> "SanitizeName", arg |-> name,
                     ok |-> TRUE, out |-> SanitizeName(name)]
    /\ UNCHANGED << daemonVars, cliCall, raceVars, caVars, storeVars, entries, blDisk, stCall, fileState,
                    tlsVars >>

\* The rule lists an engine is built from (NewRuleEngineFromRules): the merged
\* list, the rule for the tools that serve their working directory alone, and
\* no rule.
RuleLists == { Rules, <<Rules[1]>>, <<>> }

\* The processes a name is generated for; the last one has no working
\* directory, as every record has at the start of the daemon.
NameInputs ==
    { [exePath |-> Procs[1].exePath, cwd |-> Procs[1].cwd, args |-> Procs[1].args],
      [exePath |-> <<"/", "x", "/", "s", "e", "r", "v", "e">>,
       cwd |-> <<"/", "w", "/", "s", "i", "t", "e">>,
       args |-> << <<"s", "e", "r", "v", "e">> >>],
      [exePath |-> <<"/", "x", "/", "s", "e", "r", "v", "e">>, cwd |-> <<>>,
       args |-> << <<"s", "e", "r", "v", "e">> >>] }

\* Generator.GenerateName up to the base name, for a generator whose engine
\* holds the given rules; ok tells that the rules gave the name and FALSE that
\* ExtractBaseName did.
CallGenerateName ==
    /\ fnCall.ops < MaxFnOps
    /\ \E rules \in RuleLists, in \in NameInputs :
          LET baseName == MatchFrom(rules, in.exePath, in.cwd, in.args, 0)
          IN  fnCall' = [ops |-> fnCall.ops + 1, fn |-> "GenerateName",
                         arg |-> <<rules, in.exePath, in.cwd, in.args>>,
                         ok |-> baseName # <<>>,
                         out |-> IF baseName = <<>>
                                 THEN ExtractBaseName(in.exePath, in.cwd, in.args)
                                 ELSE baseName]
    /\ UNCHANGED << daemonVars, cliCall, raceVars, caVars, storeVars, entries, blDisk, stCall, fileState,
                    tlsVars >>

NextFn ==
    \/ CallValidateDomain
    \/ CallValidateWildcard
    \/ CallSanitizeName
    \/ CallGenerateName

SpecFn == Init /\ [][NextFn]_vars

(***************************************************************************)
(* cmd/cli/main.go: the command line tool, run beside the daemon. Each run *)
(* opens its own Store and BlacklistStore from the files, executes one     *)
(* command and exits; the daemon keeps the stores it opened when it        *)
(* started.                                                                *)
(***************************************************************************)
\* The port the user names in `nameport add`.
ManualPort == 8000

\* What the user may type as the name of a manual service.
AddInputs == { <<"m">> }

\* cmdAdd: the name gets its suffix, then store.AddManualService on the Store
\* that main has loaded from the services file.
CliAdd ==
    /\ cliCall.ops < MaxCli
    /\ \E input \in AddInputs, fileOrder \in Orders(DOMAIN disk) :
          LET name == EnsureSuffix(input)
              nms == LoadNames(disk, fileOrder, EmptyMap)
              record == ManualRecord(name, ManualPort, <<>>, passes)
          IN  /\ cliCall' = [ops |-> cliCall.ops + 1, op |-> "add", type |-> "",
                             value |-> name, pass |-> passes]
              /\ disk' = IF AddManualError(nms, name) # "" THEN disk
                         ELSE persist(SaveRecords(disk, record))
    /\ UNCHANGED << genCall, apiReq, scanErr, stCall, fileState, tlsVars, fnCall, raceVars, caVars, envVars,
                    records, names, entries, usedNames, tableVars, discVars, reqs,
                    apiCalls, restarts, lastRename, blDisk, resp >>

\* cmdBlacklistAdd: blacklistStore.Add on the BlacklistStore that main has
\* loaded from the blacklist file.
CliBlacklistAdd ==
    /\ cliCall.ops < MaxCli
    /\ \E input \in BlacklistInputs :
          /\ cliCall' = [ops |-> cliCall.ops + 1, op |-> "blacklist",
                         type |-> input.type, value |-> input.value, pass |-> passes]
          /\ blDisk' = IF AddError(input.type, input.value) # "" THEN blDisk
                       ELSE Append(blDisk, [id |-> MaxApi + cliCall.ops + 1,
                                            type |-> input.type, value |-> input.value])
    /\ UNCHANGED << genCall, apiReq, scanErr, stCall, fileState, tlsVars, fnCall, raceVars, caVars, envVars,
                    storeVars, entries, usedNames, tableVars, discVars, reqs, apiCalls,
                    restarts, lastRename, resp >>

\* The discovery loop with restarts of the daemon, and `nameport add` run
\* beside it.
NextManual ==
    \/ EnvStart
    \/ EnvStop
    \/ DiscoverScan
    \/ DiscoverSkip
    \/ DiscoverKnownStore
    \/ DiscoverKnownTable
    \/ DiscoverNewStore
    \/ DiscoverNewTable
    \/ DiscoverFinish
    \/ Restart
    \/ CliAdd

SpecManual == Init /\ [][NextManual]_vars

\* The discovery loop with API renames, and `nameport add` run beside it.
NextNaming ==
    \/ EnvStart
    \/ EnvStop
    \/ DiscoverScan
    \/ DiscoverSkip
    \/ DiscoverKnownStore
    \/ DiscoverKnownTable
    \/ DiscoverNewStore
    \/ DiscoverNewTable
    \/ DiscoverFinish
    \/ ApiRename
    \/ CliAdd

SpecNaming == Init /\ [][NextNaming]_vars

\* The discovery loop with restarts of the daemon, and `nameport blacklist`
\* run beside it.
NextCliBlacklist ==
    \/ EnvStart
    \/ EnvStop
    \/ DiscoverScan
    \/ DiscoverSkip
    \/ DiscoverKnownStore
    \/ DiscoverKnownTable
    \/ DiscoverNewStore
    \/ DiscoverNewTable
    \/ DiscoverFinish
    \/ Restart
    \/ CliBlacklistAdd

SpecCliBlacklist == Init /\ [][NextCliBlacklist]_vars

(***************************************************************************)
(* internal/storage: the Store called by two goroutines of the daemon side *)
(* by side. The Store struct has no mutex; discover calls Save without     *)
(* s.mu and handleAPIKeep calls it after s.mu.Unlock. Each call is split   *)
(* where the other goroutine can run: the assignments through the record   *)
(* pointer, the writes of the maps in Save, List with MarshalIndent in     *)
(* persist, and os.WriteFile.                                              *)
(***************************************************************************)
otherVars == << daemonVars, fnCall, cliCall, caVars, stCall, fileState, tlsVars, entries, blDisk >>

\* The assignments the caller makes through the pointer it got from Get.
CallerUpdate(g, record, port, keep) ==
    IF g = "discover" THEN [record EXCEPT !.port = port, !.isActive = TRUE]
    ELSE [record EXCEPT !.keep = keep]

\* The caller has the record of Get, assigns its fields and calls Save.
SaveEnter(g) ==
    /\ sth[g].pc = "idle"
    /\ sth[g].calls < MaxStoreCalls
    /\ \E id \in DOMAIN records, port \in Ports, keep \in BOOLEAN :
          /\ records' = [records EXCEPT ![id] = CallerUpdate(g, @, port, keep)]
          /\ sth' = [sth EXCEPT ![g] = [pc |-> "save", calls |-> sth[g].calls + 1,
                                         id |-> id, doc |-> <<>>]]
    /\ UNCHANGED << otherVars, names, disk >>

\* Save: the writes of s.records and s.names.
SaveMaps(g) ==
    /\ sth[g].pc = "save"
    /\ records' = SaveRecords(records, records[sth[g].id])
    /\ names' = SaveNames(records, names, records[sth[g].id])
    /\ sth' = [sth EXCEPT ![g].pc = "marshal"]
    /\ UNCHANGED << otherVars, disk >>

\* Two goroutines are in the maps at once, one of them writing: the runtime
\* may detect it and end the process with a fatal error.
SaveMapsFatal ==
    /\ \E g, h \in StoreCallers :
          g # h /\ sth[g].pc = "save" /\ sth[h].pc \in {"save", "marshal"}
    /\ sth' = [g \in StoreCallers |-> [sth[g] EXCEPT !.pc = "fatal"]]
    /\ UNCHANGED << otherVars, storeVars >>

\* persist: s.List() and json.MarshalIndent.
SaveMarshal(g) ==
    /\ sth[g].pc = "marshal"
    /\ sth' = [sth EXCEPT ![g].pc = "write", ![g].doc = persist(records)]
    /\ UNCHANGED << otherVars, storeVars >>

\* persist: os.WriteFile, and the return of Save.
SaveWrite(g) ==
    /\ sth[g].pc = "write"
    /\ disk' = sth[g].doc
    /\ sth' = [sth EXCEPT ![g].pc = "idle", ![g].doc = <<>>]
    /\ UNCHANGED << otherVars, records, names >>

NextStoreRace ==
    \/ \E g \in StoreCallers : SaveEnter(g)
    \/ \E g \in StoreCallers : SaveMaps(g)
    \/ SaveMapsFatal
    \/ \E g \in StoreCallers : SaveMarshal(g)
    \/ \E g \in StoreCallers : SaveWrite(g)

\* The two callers on the store of the daemon that holds one service.
SpecStoreRace == InitKept /\ [][NextStoreRace]_vars

(***************************************************************************)
(* cmd/daemon/main.go: Server.discover, the new identity, split between    *)
(* the call of GenerateName and the call of Store.Save: neither is made    *)
(* under s.mu, so a handler can run between them.                          *)
(***************************************************************************)
\* The listener that cur was taken from.
CurListener ==
    [port |-> cur.port, pid |-> cur.pid,
     proc |-> CHOOSE p \in 1..Len(Procs) : IdOf([proc |-> p]) = cur.id]

\* New identity: s.generator.GenerateName.
DiscoverNewAlloc ==
    /\ dpc = "loop"
    /\ \E l \in todo :
          /\ ~Skipped(l)
          /\ IdOf(l) \notin DOMAIN records
          /\ \E gen \in {GenerateName(usedNames, ExeOf(l), CwdOf(l), ArgsOf(l))} :
                /\ seenIDs' = seenIDs \cup {IdOf(l)}
                /\ usedNames' = gen.used
                /\ cur' = [id |-> IdOf(l), name |-> gen.name, port |-> l.port,
                           pid |-> l.pid, useTLS |-> DetectProtocol(l.port) = "https"]
          /\ todo' = todo \ {l}
    /\ dpc' = "alloc"
    /\ UNCHANGED << genCall, apiReq, scanErr, pkgVars, envVars, storeVars, entries,
                    tableVars, seenNames, now, notifs, passes, reqs, apiCalls, restarts,
                    lastRename, blDisk, resp >>

\* New identity: the record is created and s.store.Save is called.
DiscoverNewSave ==
    /\ dpc = "alloc"
    /\ LET record == NewRecord(cur.id, cur.name, CurListener, cur.useTLS, now)
       IN  /\ records' = SaveRecords(records, record)
           /\ names' = SaveNames(records, names, record)
           /\ disk' = persist(records')
    /\ dpc' = "new"
    /\ UNCHANGED << genCall, apiReq, scanErr, pkgVars, envVars, entries, usedNames,
                    tableVars, todo, seenIDs, seenNames, now, cur, notifs, passes, reqs,
                    apiCalls, restarts, lastRename, blDisk, resp >>

\* The discovery loop, its new identities in three steps, with API renames.
NextAlloc ==
    \/ EnvStart
    \/ EnvStop
    \/ DiscoverScan
    \/ DiscoverSkip
    \/ DiscoverKnownStore
    \/ DiscoverKnownTable
    \/ DiscoverNewAlloc
    \/ DiscoverNewSave
    \/ DiscoverNewTable
    \/ DiscoverFinish
    \/ ApiRename

SpecAlloc == Init /\ [][NextAlloc]_vars

(***************************************************************************)
(* cmd/daemon/main.go: Server.discover while the listening sockets change  *)
(* only between two passes, so that every listener of the scan is still    *)
(* there when the pass ends.                                               *)
(***************************************************************************)
EnvStartIdle == dpc = "idle" /\ EnvStart

EnvStopIdle == dpc = "idle" /\ EnvStop

NextQuiet ==
    \/ EnvStartIdle
    \/ EnvStopIdle
    \/ DiscoverScan
    \/ DiscoverSkip
    \/ DiscoverKnownStore
    \/ DiscoverKnownTable
    \/ DiscoverNewStore
    \/ DiscoverNewTable
    \/ DiscoverFinish
    \/ ApiBlacklist

SpecQuiet == Init /\ [][NextQuiet]_vars

(***************************************************************************)
(* Properties                                                              *)
(***************************************************************************)
\* C1: in every reachable state of the service store no two records have the
\* same name.
C1_UniqueNames ==
    \A a, b \in DOMAIN records : a # b => records[a].name # records[b].name

\* A rename has just succeeded.
RenameDone == lastRename' # lastRename /\ ~lastRename'.restarted

\* C2: every name held by a record in the service table is in the used-name
\* set of the naming engine, and after a rename the old name is no longer in
\* the used-name set.
C2_UsedNamesConsistent ==
    [][/\ \A n \in DOMAIN services' :
             TrimSuffix(objects'[services'[n]].Name, DotLocalhost) \in usedNames'
       /\ RenameDone => TrimSuffix(lastRename'.old, DotLocalhost) \notin usedNames']_vars

\* GenerateName has just returned.
GenerateCalled == genCall'.ops # genCall.ops /\ genCall'.kind = "generate"

\* The name is base-k.localhost for the smallest k of 1..top whose base-k is
\* not allocated.
SmallestFree(name, base, used, top) ==
    \E k \in 1..top :
       /\ name = Suffixed(base, k) \o DotLocalhost
       /\ Suffixed(base, k) \notin used
       /\ \A j \in 1..(k - 1) : Suffixed(base, j) \in used

Target(svc) == << svc.UseTLS, svc.TargetHost, svc.Port >>

\* C4: when a discovery pass changes the port, the target host or use_tls of a
\* known service, the cached proxy object of the service is invalidated, so
\* that the next request constructs one for the new target.
C4_ProxyInvalidated ==
    [][\A id \in DOMAIN objects :
          (id \in DOMAIN objects' /\ Target(objects'[id]) # Target(objects[id]))
             => objects'[id].Proxy = NoProxy]_vars

\* C5: a request that finds its service without a proxy object does not fail:
\* it is delegated to a proxy constructed for that service.
C5_FirstRequestServed ==
    \A i \in 1..MaxReq :
       (reqs[i].pc = "done" /\ reqs[i].first)
          => reqs[i].outcome = "proxied" /\ reqs[i].target # NoProxy

\* C6: the store save and the service-table update of an identity are one
\* atomic step: in every state a reader can observe, each record has its entry
\* in the service table under its name with the same port, pid and use_tls,
\* and each table entry has its record.
C6_StoreTableAtomic ==
    /\ \A id \in DOMAIN records :
          /\ records[id].name \in DOMAIN services
          /\ objects[services[records[id].name]].ID = id
          /\ objects[services[records[id].name]].Port = records[id].port
          /\ objects[services[records[id].name]].PID = records[id].pid
          /\ objects[services[records[id].name]].UseTLS = records[id].useTLS
    /\ \A n \in DOMAIN services : objects[services[n]].ID \in DOMAIN records

\* The closing loop of a discovery pass has just run.
FinishStep == dpc = "loop" /\ dpc' = "idle" /\ restarts' = restarts

\* How many "service offline" notifications in seq name the service.
Offline(seq, name) ==
    Cardinality({i \in 1..Len(seq) :
                    seq[i].event = "service_offline" /\ seq[i].name = name})

\* C7: at the end of a discovery pass every record that was active and whose
\* identity was not seen in the pass becomes inactive, with last_seen set to
\* the pass time and exactly one "service offline" notification; a record
\* whose identity was seen is not marked inactive, even if it was renamed
\* while the pass was running.
C7_InactiveMarking ==
    [][FinishStep =>
          \A id \in DOMAIN records :
             /\ (records[id].isActive /\ id \notin seenIDs)
                   => /\ ~records'[id].isActive
                      /\ records'[id].lastSeen = now
                      /\ Offline(notifs', records[id].name)
                            = Offline(notifs, records[id].name) + 1
             /\ id \in seenIDs => records'[id].isActive = records[id].isActive]_vars

\* A step of the discovery pass.
DiscoveryStep ==
    /\ envSteps' = envSteps
    /\ apiCalls' = apiCalls
    /\ restarts' = restarts
    /\ reqs' = reqs
    /\ genCall' = genCall

\* C8: a discovery pass never changes the name of a record that already exists
\* in the store.
C8_DiscoveryKeepsNames ==
    [][DiscoveryStep =>
          \A id \in DOMAIN records :
             id \in DOMAIN records' /\ records'[id].name = records[id].name]_vars

\* A pass has just rediscovered an identity the user had renamed before.
C8_Witness ==
    /\ dpc = "known"
    /\ cur.id = lastRename.id
    /\ records[cur.id].userDefined
    /\ records[cur.id].name = lastRename.new

\* C9: after a successful rename from N to M followed by a daemon restart, the
\* store and the service table contain that record under M with
\* user_defined = true, and no record is named N.
C9_RenameSurvivesRestart ==
    [][(restarts' # restarts /\ lastRename # NoRename) =>
          /\ lastRename.id \in DOMAIN records'
          /\ records'[lastRename.id].name = lastRename.new
          /\ records'[lastRename.id].userDefined
          /\ lastRename.new \in DOMAIN names'
          /\ names'[lastRename.new] = lastRename.id
          /\ lastRename.new \in DOMAIN services'
          /\ objects'[services'[lastRename.new]].ID = lastRename.id
          /\ \A id \in DOMAIN records' : records'[id].name # lastRename.old]_vars

\* The user blacklist entry matches the listening process.
EntryMatches(entry, l) ==
    \/ entry.type = "pid" /\ entry.value = Itoa(l.pid)
    \/ entry.type = "path"
          /\ (ExeOf(l) = entry.value \/ HasPrefix(ExeOf(l), entry.value))
    \/ entry.type = "pattern"
          /\ \/ MatchString(entry.value, ExeOf(l))
             \/ MatchString(entry.value, Join(ArgsOf(l), <<" ">>))

UserBlacklisted(l) == \E i \in 1..Len(entries) : EntryMatches(entries[i], l)

UpdateNameCall == stCall'.ops # stCall.ops /\ stCall'.kind = "UpdateName"

\* The name-to-id index binds newName to an id other than id.
NameTaken(id, newName) == newName \in DOMAIN names /\ names[newName] # id

\* C11: UpdateName(id, newName) returns an error when newName is bound to a
\* different id, and then the records, the name-to-id index and the services
\* file are what they were before the call.
C11_UpdateNameRejectsTakenName ==
    [][(UpdateNameCall /\ NameTaken(stCall'.id, stCall'.name))
          => /\ stCall'.err \in {"record not found", "name is already in use"}
             /\ UNCHANGED << records, names, disk, fileState >>]_vars

\* C11: UpdateName has just refused a name bound to another id.
C11_Witness ==
    /\ stCall.kind = "UpdateName"
    /\ stCall.err = "name is already in use"
    /\ stCall.id \in DOMAIN records
    /\ names[stCall.name] # stCall.id

\* C12: after every operation of the store the name-to-id index holds the
\* entry name -> id of each stored record, and no entry for a name that no
\* stored record holds.
C12_IndexExact ==
    StoreUp =>
       /\ \A id \in DOMAIN records :
             records[id].name \in DOMAIN names /\ names[records[id].name] = id
       /\ \A n \in DOMAIN names :
             names[n] \in DOMAIN records /\ records[names[n]].name = n

\* C14: at every instant the services file holds a whole document, the one
\* before the write in progress or the one after it (the blacklist file is
\* replaced by a rename and is whole by construction of blDisk).
C14_WritesAtomic == fileState = "complete"

\* A mutating call of the Store or of the BlacklistStore has just returned the
\* error of persist.
PersistFailed == stCall'.ops # stCall.ops /\ stCall'.err = "persist"

\* C15: when persisting fails in a mutating operation of the service store or
\* of the blacklist store, the operation returns the error with the in-memory
\* state as it was before the operation, equal to what the file holds.
C15_RollbackOnPersistError ==
    [][PersistFailed =>
          /\ records' = records
          /\ names' = names
          /\ entries' = entries
          /\ fileState' = "complete" => records' = disk'
          /\ entries' = blDisk']_vars

\* A POST /api/rename has just been answered.
RenameCall == apiCalls' # apiCalls /\ apiReq'.op = "rename"

\* The service table holds a service of this name.
TableHolds(name) == \E n \in DOMAIN services : objects[services[n]].Name = name

\* C13: a POST /api/rename is answered 404 when oldName is not in the service
\* table and 400 when newName, with the suffix ensured, is held by a different
\* service; a rename answered 404 or 400 leaves the store, the service table
\* and the used-name set as they were.
C13_RejectedRenameChangesNothing ==
    [][RenameCall =>
          /\ ~TableHolds(apiReq'.name) => resp' = 404
          /\ (/\ TableHolds(apiReq'.name)
              /\ apiReq'.arg # apiReq'.name
              /\ TableHolds(apiReq'.arg)) => resp' = 400
          /\ resp' \in {400, 404} => UNCHANGED << storeVars, tableVars, usedNames >>]_vars

\* The scan of a discovery pass has just failed.
ScanFailed == passes' # passes /\ scanErr'

\* C16: when the port scan fails, the discovery pass returns: the store, the
\* service table with its proxy objects, the used-name set and the blacklist
\* are unchanged, and the pass emits no notification.
C16_ScanErrorChangesNothing ==
    [][ScanFailed =>
          /\ dpc' = "idle"
          /\ notifs' = <<>>
          /\ UNCHANGED << storeVars, tableVars, usedNames, entries, blDisk >>]_vars

\* C16: a scan has failed while the table holds a service whose record is
\* active and whose process no longer listens, which a pass over an empty
\* scan would have marked inactive.
C16_Witness ==
    /\ scanErr
    /\ dpc = "idle"
    /\ \E n \in DOMAIN services :
          /\ objects[services[n]].ID \in DOMAIN records
          /\ records[objects[services[n]].ID].isActive
          /\ \A l \in listeners : IdOf(l) # objects[services[n]].ID

\* The service table lists the record of this id.
Listed(id) == \E n \in DOMAIN services : objects[services[n]].ID = id

\* A step of the daemon's own: a step of a discovery pass or the start of the
\* daemon, not a request of the admin API.
DaemonStep == apiCalls' = apiCalls

\* C17: no discovery pass and no other action the daemon takes by itself
\* removes a record with keep = true from the store or from the service table.
C17_KeptNeverRemoved ==
    [][DaemonStep =>
          \A id \in DOMAIN records :
             records[id].keep =>
                /\ id \in DOMAIN records'
                /\ Listed(id) => Listed(id)']_vars

\* GetCertificate has just looked at the cache for a server name that passes
\* the policy: it has returned, or it has gone on to issue.
GetLooksUp(sni) ==
    /\ icall.pc = "idle"
    /\ \/ tlsRet'.ops # tlsRet.ops /\ tlsRet'.op = "get" /\ tlsRet'.sni = sni
       \/ icall'.pc = "sign" /\ icall'.op = "get" /\ icall'.dnsNames = <<sni>>
    /\ sni # <<>>
    /\ ValidateDomainOk(sni)

\* The issuance that GetCertificate called has just returned a certificate.
GetIssues == icall.pc = "chain" /\ icall.op = "get" /\ tlsRet'.ops # tlsRet.ops

\* C18: get_certificate(sni) returns the cached certificate for sni, leaving
\* the cache unchanged, when there is one and now < expiry - 1 hour;
\* otherwise it calls issue for [sni], and the certificate issued is a new
\* one, is stored in the cache under sni and is the one returned.
C18_CachedOrReissued ==
    [][/\ \A sni \in SniInputs :
             GetLooksUp(sni) =>
                IF sni \in DOMAIN cache /\ clock < cache[sni].expiry - renewBefore
                THEN /\ tlsRet'.ops # tlsRet.ops
                     /\ tlsRet'.err = ""
                     /\ tlsRet'.cert = cache[sni]
                     /\ cache' = cache
                ELSE /\ icall'.pc = "sign"
                     /\ tlsRet' = tlsRet
                     /\ cache' = cache
       /\ GetIssues =>
             /\ tlsRet'.err = ""
             /\ tlsRet'.cert.dnsNames = <<tlsRet'.sni>>
             /\ \A n \in DOMAIN cache : cache[n].serial # tlsRet'.cert.serial
             /\ cache'[tlsRet'.sni] = tlsRet'.cert]_vars

\* C18: get_certificate has returned a certificate that an earlier call had
\* issued, in the last hour in which it is still served from the cache.
C18_Witness ==
    /\ tlsRet.op = "get"
    /\ tlsRet.err = ""
    /\ tlsRet.cert.serial < tlsRet.ops
    /\ clock = tlsRet.cert.expiry - renewBefore - 1
    /\ clock > 0

\* The sequence holds the element.
InSeq(x, s) == \E k \in 1..Len(s) : s[k] = x

\* C19: every certificate that get_certificate returns for a server name is
\* unexpired when it is returned (now < expiry) and lists the server name
\* among its DNS names, whatever calls of issue and get_certificate preceded.
C19_ReturnedCertValid ==
    [][(tlsRet'.ops # tlsRet.ops /\ tlsRet'.op = "get" /\ tlsRet'.err = "")
          => /\ clock' < tlsRet'.cert.expiry
             /\ InSeq(tlsRet'.sni, tlsRet'.cert.dnsNames)]_vars

\* C19: get_certificate has returned from the cache a certificate that issue
\* had made for two names and for two hours.
C19_Witness ==
    /\ tlsRet.op = "get"
    /\ tlsRet.err = ""
    /\ Len(tlsRet.cert.dnsNames) = 2
    /\ tlsRet.cert.serial < tlsRet.ops

\* C20: for every leaf certificate issued, the chain [leaf, intermediate,
\* root] verifies, also when the issuance runs while the intermediate is
\* being rotated.
C20_ChainVerifies ==
    /\ \A n \in DOMAIN cache : ChainVerifies(cache[n])
    /\ tlsRet.err = "" /\ tlsRet.ops > 0 => ChainVerifies(tlsRet.cert)

\* Issue has just returned the error of the policy.
IssueRejected ==
    /\ icall.pc = "idle"
    /\ tlsRet'.ops # tlsRet.ops
    /\ tlsRet'.op = "issue"
    /\ tlsRet'.err = "policy"

\* C22: when issue is called with a DNS name that fails the policy, it
\* returns an error before any key is generated or any certificate is signed,
\* creates no cache entry and writes no file; no issuance is ever in progress
\* for a name that fails the policy.
C22_PolicyBeforeCrypto ==
    [][/\ IssueRejected =>
             /\ keys' = keys
             /\ icall' = NoIssuerCall
             /\ tlsRet'.cert = NoCert
             /\ cache' = cache
             /\ UNCHANGED << disk, fileState, blDisk >>
       /\ icall'.pc # "idle" => NamesAllowed(icall'.dnsNames)]_vars

\* C22: issue has refused a request whose first name passes the policy and
\* whose second name does not, after an earlier issuance had generated a key.
C22_Witness ==
    /\ tlsRet.op = "issue"
    /\ tlsRet.err = "policy"
    /\ ValidateDomainOk(tlsRet.sni)
    /\ keys = 1
    /\ tlsRet.sni \notin DOMAIN cache

\* GetCertificate of handshake h has just returned a certificate.
HsReturns(h) == hs[h].pc # "done" /\ hs'[h].pc = "done" /\ hs'[h].err = ""

\* Handshake h has issued the certificate it returned.
HsIssued(h) == hs[h].pc = "done" /\ hs[h].err = "" /\ hs[h].leaf = hs[h].cert

\* C21: when get_certificate calls for the same SNI run concurrently with no
\* usable cache entry, each returns a valid certificate for that SNI (the SNI
\* among its names, unexpired, its chain verifying), the certificates issued
\* differ, each insert replaces the entry of the SNI (last writer wins), and
\* the cache holds under every SNI one of the certificates issued for it.
C21_LastWriterWins ==
    [][/\ \A h \in 1..MaxHandshakes :
             /\ HsReturns(h) =>
                   /\ InSeq(hs'[h].sni, hs'[h].cert.dnsNames)
                   /\ clock' < hs'[h].cert.expiry
                   /\ ChainVerifies(hs'[h].cert)
             /\ (hs[h].pc = "insert" /\ hs'[h].pc = "done") =>
                   /\ cache'[hs[h].sni] = hs'[h].cert
                   /\ \A g \in 1..MaxHandshakes : g # h => hs'[g] = hs[g]
       /\ \A g, h \in 1..MaxHandshakes :
             (g # h /\ hs'[g].leaf # NoCert /\ hs'[h].leaf # NoCert)
                => hs'[g].leaf.serial # hs'[h].leaf.serial
       /\ \A n \in DOMAIN cache' :
             \E h \in 1..MaxHandshakes :
                hs'[h].pc = "done" /\ hs'[h].sni = n /\ hs'[h].leaf = cache'[n]]_vars

\* C21: two handshakes for one SNI have each issued a certificate, both
\* certificates are still served from the cache at this hour, so neither call
\* saw the other's, and the cache holds the one whose key was generated first.
C21_Witness ==
    /\ HsIssued(1)
    /\ HsIssued(2)
    /\ hs[1].sni = hs[2].sni
    /\ Fresh(hs[1].cert, clock)
    /\ Fresh(hs[2].cert, clock)
    /\ hs[1].cert.serial < hs[2].cert.serial
    /\ cache[hs[1].sni] = hs[1].cert

\* The domain as the claim looks at it: trimmed and lower-cased.
TrimmedLower(d) == ToLower(TrimSuffix(Trim(d, " "), <<".">>))

\* The string ends with one of the allowed TLD suffixes.
EndsWithAllowedTLD(d) == \E tld \in allowedTLDs : HasSuffix(d, tld)

\* C23 as stated: validate_domain(d) succeeds if and only if the trimmed,
\* lower-cased d ends with one of the suffixes .localhost, .test, .localdev,
\* .internal, .home.arpa.
C23_SucceedsIffSuffix ==
    fnCall.fn = "ValidateDomain" =>
       (fnCall.ok <=> EndsWithAllowedTLD(TrimmedLower(fnCall.arg)))

\* C23: validate_domain(d) succeeds if and only if d, with the surrounding
\* white space and one trailing dot removed and lower-cased, ends with one of
\* the suffixes .localhost, .test, .localdev, .internal, .home.arpa or is one
\* of these TLDs on its own, without the leading dot.
C23_SucceedsIffSuffixOrBareTLD ==
    fnCall.fn = "ValidateDomain" =>
       (fnCall.ok <=>
           \/ EndsWithAllowedTLD(TrimmedLower(fnCall.arg))
           \/ <<".">> \o TrimmedLower(fnCall.arg) \in allowedTLDs)

\* C23: validate_domain has accepted a TLD on its own.
C23_Witness ==
    /\ fnCall.fn = "ValidateDomain"
    /\ fnCall.arg = Tail(DotHomeArpa)
    /\ fnCall.ok

\* The labels of a domain: its pieces between the dots, the empty ones left out.
Labels(d) == SelectSeq(Split(d, "."), LAMBDA piece : piece # <<>>)

\* The number of labels of the allowed TLD that the domain ends with.
TLDLabels(d) ==
    IF HasSuffix(d, DotHomeArpa) \/ d = Tail(DotHomeArpa) THEN 2 ELSE 1

\* C24: validate_wildcard(p) succeeds if and only if p (trimmed and
\* lower-cased) begins with `*.`, contains no other `*`, the part after `*.`
\* validates as a domain, and that part has at least one label below the
\* allowed TLD: at least k+1 labels for an allowed TLD of k labels.
C24_WildcardDepth ==
    fnCall.fn = "ValidateWildcard" =>
       LET p == TrimmedLower(fnCall.arg)
           part == SubSeq(p, 3, Len(p))
       IN  fnCall.ok <=>
              /\ HasPrefix(p, <<"*", ".">>)
              /\ ~Contains(part, <<"*">>)
              /\ ValidateDomainOk(part)
              /\ Len(Labels(part)) >= TLDLabels(TrimmedLower(part)) + 1

\* C25: sanitization is idempotent on its own output: for every base name n
\* that SanitizeName produces, SanitizeName(n) = n.
C25_SanitizeIdempotent ==
    fnCall.fn = "SanitizeName" => SanitizeName(fnCall.out) = fnCall.out

\* The latest call of GenerateName found the base name and every numbered
\* candidate allocated: the name it returned is none of them.
GenerateExhausted ==
    /\ genCall.kind = "generate"
    /\ LET n == TrimSuffix(genCall.name, DotLocalhost)
       IN  /\ n # genCall.cleaned
           /\ \A k \in 1..(MaxSuffix - 1) : n # Suffixed(genCall.cleaned, k)

C27_NamesEndInLocalhost ==
    /\ \A id \in DOMAIN records : HasSuffix(records[id].name, DotLocalhost)
    /\ \A id \in DOMAIN disk : HasSuffix(disk[id].name, DotLocalhost)
    /\ \A n \in DOMAIN names : HasSuffix(n, DotLocalhost)
    /\ \A n \in DOMAIN services : HasSuffix(n, DotLocalhost)

\* A pass has discovered a service, the user has renamed it to a name typed
\* without the suffix and has added a manual service under a name typed
\* without it: the file holds both records.
C27_Witness ==
    /\ cliCall.op = "add"
    /\ ManualID(cliCall.value, Loopback, ManualPort) \in DOMAIN disk
    /\ lastRename # NoRename
    /\ lastRename.new = <<"a", "-", "1">> \o DotLocalhost
    /\ lastRename.id \in DOMAIN disk
    /\ disk[lastRename.id].name = lastRename.new
    /\ records[lastRename.id].name = lastRename.new
    /\ lastRename.new \in DOMAIN services

\* The pass has just finished with a known identity: the update of the record
\* and the update of the runtime service have both run.
KnownStep == dpc = "known" /\ dpc' = "loop" /\ restarts' = restarts

\* C28: when a discovery pass has probed a known identity successfully, the
\* use_tls value of its store record and of its service-table entry both equal
\* the result of that probe of the service's current port.
C28_UseTLSReflectsProbe ==
    [][KnownStep =>
          /\ cur.id \in DOMAIN records'
          /\ records'[cur.id].useTLS = cur.useTLS
          /\ \A n \in DOMAIN services' :
                objects'[services'[n]].ID = cur.id
                   => objects'[services'[n]].UseTLS = cur.useTLS]_vars

\* The entry that `nameport blacklist` has added to the blacklist file.
CliEntry == [type |-> cliCall.type, value |-> cliCall.value]

\* A pass that started after the latest command of the command line tool
\* examines the listener l and does not skip it.
ExaminedLater(l) ==
    /\ passes > cliCall.pass
    /\ dpc = "loop"
    /\ dpc' \in {"known", "new"}
    /\ l \in todo
    /\ todo' = todo \ {l}

\* C29: a blacklist entry added through the command line tool while the daemon
\* runs takes effect from the daemon's next scan cycle on: the passes that
\* start after the command skip every listener that the entry matches.
C29_CliBlacklistTakesEffect ==
    [][\A l \in todo :
          (/\ cliCall.op = "blacklist"
           /\ AddError(cliCall.type, cliCall.value) = ""
           /\ ExaminedLater(l))
             => ~EntryMatches(CliEntry, l)]_vars

\* The record was created by `nameport add`.
IsManual(r) == r.id = ManualID(r.name, r.targetHost, r.port) /\ r.pid = 0

\* The pass that is ending has probed the port successfully: it has seen an
\* identity and left that port in its record.
PortResponded(port) ==
    \E id \in seenIDs : id \in DOMAIN records /\ records[id].port = port

\* C30: a manual service record is always kept, and once a discovery pass has
\* found its port responding the record is active at the end of the pass.
C30_ManualActivated ==
    [][/\ \A m \in DOMAIN records : IsManual(records[m]) => records[m].keep
       /\ FinishStep =>
             \A m \in DOMAIN records :
                (IsManual(records[m]) /\ PortResponded(records[m].port))
                   => records'[m].isActive]_vars

\* The goroutine is inside an operation of the Store: Save has been called and
\* has not returned.
InStore(g) == sth[g].pc \in {"save", "marshal", "write"}

\* C31: the operations of the discovery loop and of the admin API handlers on
\* the service store are mutually exclusive, persistence included: no two
\* goroutines are inside a store operation at the same time.
C31_StoreOpsExclusive ==
    \A g, h \in StoreCallers : g # h => ~(InStore(g) /\ InStore(h))

\* C32: a request handler that has read the proxy pointer of its service as
\* non-nil delegates through that proxy: discovery does not reset the pointer
\* to nil between the read and the call.
C32_ProxyNotResetUnderReader ==
    \A i \in 1..MaxReq :
       (reqs[i].pc = "done" /\ reqs[i].service # <<>> /\ ~reqs[i].first)
          => reqs[i].outcome = "proxied"

\* The name is bound: the store or the service table has it.
Bound(nms, svcs, name) == name \in DOMAIN nms \/ name \in DOMAIN svcs

\* C33: the allocation of a name for a new identity and the insertion of its
\* record into the store and the service table are one critical section: while
\* discovery is between the allocation and the insertion, no other writer
\* binds the allocated name.
C33_AllocateInsertAtomic ==
    [][(dpc \in {"alloc", "new"} /\ dpc' = dpc /\ ~Bound(names, services, cur.name))
          => ~Bound(names', services', cur.name)]_vars

\* The daemon has just started: main has loaded the store and filled the
\* generator and the service table.
StartupStep == restarts' # restarts

\* C34: after the startup of the daemon the base name of every record loaded
\* from the store, user-renamed and manual ones included, is in the used-name
\* set.
C34_LoadedNamesUsed ==
    [][StartupStep =>
          \A id \in DOMAIN records' :
             TrimSuffix(records'[id].name, DotLocalhost) \in usedNames']_vars

\* C35: whenever no operation is in progress the service table and the store
\* agree: each table key is the Name of its entry, and the table has an entry
\* with name n and id i if and only if the store has a record with name n and
\* id i.
C35_TableMatchesStore ==
    dpc = "idle" =>
       /\ \A n \in DOMAIN services :
             /\ objects[services[n]].Name = n
             /\ objects[services[n]].ID \in DOMAIN records
             /\ records[objects[services[n]].ID].name = n
       /\ \A i \in DOMAIN records :
             /\ records[i].name \in DOMAIN services
             /\ objects[services[records[i].name]].ID = i

\* C36: after a discovery pass every listener that passed the filters is
\* routable: some entry of the service table has that listener's port as its
\* target port, also when one identity listens on several ports.
C36_FilteredListenersRoutable ==
    [][FinishStep =>
          \A l \in listeners :
             ~Skipped(l) =>
                \E n \in DOMAIN services' : objects'[services'[n]].Port = l.port]_vars

\* C37: a manual add written to the services file by the command line tool
\* while the daemon runs is in effect after the next restart of the daemon: the
\* daemon's own writes of the file have not overwritten it, and the store that
\* the restarted daemon loads holds the manual record under the added name.
C37_CliWriteSurvivesRestart ==
    [][(StartupStep /\ cliCall.op = "add")
          => \E i \in DOMAIN records' :
                IsManual(records'[i]) /\ records'[i].name = cliCall.value]_vars

\* The rules of the latest GenerateName call whose patterns all match the
\* process, by their position in the list.
MatchingRules ==
    LET rules == fnCall.arg[1]
    IN  {i \in 1..Len(rules) :
            ruleMatches(rules[i], fnCall.arg[2], Join(fnCall.arg[4], <<" ">>),
                        fnCall.arg[3], Itoa(0))}

\* What the rule at position i extracts for the process of the latest call.
Extraction(i) == extractName(fnCall.arg[1][i], fnCall.arg[2], fnCall.arg[3], fnCall.arg[4])

\* C38 as stated: the fallback heuristics give the base name only when no
\* naming rule matches the process; whenever the patterns of some rule all
\* match, the base name is the extraction of a matching rule.
C38_FallbackOnlyWithoutMatch ==
    fnCall.fn = "GenerateName" =>
       /\ ~fnCall.ok => MatchingRules = {}
       /\ MatchingRules # {} => \E i \in MatchingRules : fnCall.out = Extraction(i)

\* The matching rules that extract a name.
NamingRules == {i \in MatchingRules : Extraction(i) # <<>>}

\* C38: the fallback heuristics give the base name exactly when no matching
\* rule extracts a non-empty name; otherwise the base name is the extraction of
\* the first rule, in priority order, that matches and extracts a name.
C38_FallbackWithoutExtraction ==
    fnCall.fn = "GenerateName" =>
       /\ fnCall.ok <=> NamingRules # {}
       /\ NamingRules # {} =>
             \E i \in NamingRules :
                /\ \A j \in NamingRules : i <= j
                /\ fnCall.out = Extraction(i)
       /\ NamingRules = {} =>
             fnCall.out = ExtractBaseName(fnCall.arg[2], fnCall.arg[3], fnCall.arg[4])

\* The only rule that matches extracts nothing, and ExtractBaseName names the
\* process.
C38_Witness ==
    /\ fnCall.fn = "GenerateName"
    /\ MatchingRules # {}
    /\ \A i \in MatchingRules : Extraction(i) = <<>>
    /\ ~fnCall.ok
    /\ fnCall.out # <<>>

\* The name holds `*` only as its entire left-most label, or not at all.
StarOnlyLeftmost(name) ==
    \/ ~Contains(name, <<"*">>)
    \/ HasPrefix(name, <<"*", ".">>) /\ ~Contains(SubSeq(name, 3, Len(name)), <<"*">>)

\* C39: Issue never produces a certificate whose DNS names contain `*`
\* anywhere other than as the entire left-most label; a requested name such as
\* a.*.localhost is rejected.
C39_StarOnlyLeftmost ==
    (tlsRet.op = "issue" /\ tlsRet.err = "") =>
       \A k \in 1..Len(tlsRet.cert.dnsNames) : StarOnlyLeftmost(tlsRet.cert.dnsNames[k])

\* The RotateIntermediate call returns, or is interrupted, in this step.
RotateEnds == rcall.pc # "idle" \/ rcall'.calls # rcall.calls

\* C40: after RotateIntermediate has returned with success or with an error,
\* or was interrupted between its two file writes, the intermediate certificate
\* and the intermediate key belong to the same key pair in memory and on disk,
\* and on an error the CA in memory is unchanged.
C40_RotateKeepsPair ==
    [][(RotateEnds /\ rcall'.pc = "idle") =>
          /\ InterCert' = InterKey'
          /\ interFiles'.cert = interFiles'.key
          /\ rcall'.err \in {"create", "write"}
                => (InterCert' = InterCert /\ InterKey' = InterKey)]_vars

====
